---- MODULE Spec2Model ----
(***************************************************************************)
(* A model of the tea API client: the retry executor (retryRequest), the   *)
(* cache manager with its two storage backends (MemoryStorage and          *)
(* LocalStorage), and the request pipeline of createTea (core).            *)
(*                                                                         *)
(* The specifications share the variables:                                 *)
(*   SpecRetry      retryRequest driven by an arbitrary operation;         *)
(*   SpecCache      one CacheManager driven through set, get, invalidate   *)
(*                  and clear;                                             *)
(*   SpecRefetch    one CacheManager with a refetch callback, driven       *)
(*                  through set and invalidateAndRefetch;                  *)
(*   SpecFocus      one CacheManager with refetchOnWindowFocus, driven     *)
(*                  through set and the window's focus events;             *)
(*   Spec           the request pipeline: concurrent calls of the function *)
(*                  createTea returns, over the manager registry;          *)
(*   SpecSolo       the pipeline with one call, under every retry policy;  *)
(*   SpecInvalidate the pipeline with invalidateQueries;                   *)
(*   SpecAbort      the pipeline with one call whose signal may be aborted;*)
(*   SpecKey        the pipeline with calls whose options differ in order  *)
(*                  or hold numbers that are not finite;                   *)
(*   SpecStorage    LocalStorage used directly and by a client, in a       *)
(*                  browser or not, over items that may be corrupt;        *)
(*   SpecTea        the tuple-returning client of src/tea.ts;              *)
(*   SpecClients    two clients made one after the other, their calls and  *)
(*                  invalidateQueries;                                     *)
(*   SpecShared     SpecInvalidate over a persisted namespace that holds   *)
(*                  entries when the client is made;                       *)
(*   SpecNone       a client of strategy none beside one of strategy       *)
(*                  memory, driven alike;                                  *)
(*   SpecDefaults   the pipeline without a retry policy or with one that   *)
(*                  leaves attempts or delay out.                          *)
(* Time is the value Date.now() returns, in milliseconds.                  *)
(***************************************************************************)
EXTENDS Integers, Sequences, FiniteSets, TLC

VARIABLES
    now,            \* Date.now()
    session,        \* SpecRetry: the one retryRequest call; SpecClients:
                    \* globalCacheManager
    isClient,       \* typeof window !== 'undefined'
    localStorage,   \* the browser's localStorage, namespaced keys only
    mgr,            \* SpecCache: the CacheManager under test; SpecNone: the
                    \* client of strategy memory
    trace,          \* SpecCache: what the last method calls did and returned;
                    \* Spec: the call whose write-back was the last, per key
    config,         \* Spec: fullConfig of createTea
    cacheManagers,  \* Spec: the registry, cacheKey -> CacheManager
    calls,          \* Spec: the calls of request(), one record per call
    invalidation    \* SpecRefetch: the invalidateAndRefetch call and the
                    \* focus events; SpecInvalidate: the invalidateQueries call

vars == <<now, session, isClient, localStorage, mgr, trace, config,
          cacheManagers, calls, invalidation>>

(***************************************************************************)
(* Bounds of the model.                                                    *)
(***************************************************************************)
MaxTime == 2
RetryMaxTime == 6
MaxAttempts == 3
MaxDelay == 2
MaxStaleTime == 1

(***************************************************************************)
(* Optional values: absent is <<>>, present is <<x>>.                      *)
(***************************************************************************)
None == <<>>

Some(x) == <<x>>

IsSome(o) == Len(o) = 1

Val(o) == o[1]

Last(s) == s[Len(s)]

RECURSIVE SumSeq(_)
SumSeq(s) == IF s = <<>> THEN 0 ELSE s[1] + SumSeq(Tail(s))

(***************************************************************************)
(* Thrown values.  kind "Error" is an instance of Error (with its message  *)
(* in detail); kind "value" is any other thrown value.                     *)
(***************************************************************************)
Err(kind, detail) == [kind |-> kind, detail |-> detail]

\* lastError's initial value: new Error('Request failed')
GenericError == Err("Error", "Request failed")

\* error instanceof Error ? error : new Error(String(error))
ToError(e) == IF e.kind = "value" THEN Err("Error", e.detail) ELSE e

(***************************************************************************)
(* retryRequest(fn, config).  A session is the state of one call:          *)
(*   pc      "idle" before the call, "calling" while fn() is awaited,      *)
(*           "waiting" while the setTimeout promise is awaited,            *)
(*           "resolved" / "rejected" once the returned promise settled;    *)
(*   attempt, lastError: the locals of the function;                       *)
(*   invocations, waits, due: what the call did so far (the number of      *)
(*           fn() calls, the setTimeout delays in order, the instant the   *)
(*           pending timer is due); value: what the promise resolved with; *)
(*   thrown, returned: what fn did, written by the environment (the values *)
(*           its invocations threw and fulfilled with, in order).          *)
(***************************************************************************)
RetryInit(attempts, delay) ==
    [attempts |-> attempts, delay |-> delay, attempt |-> 0,
     lastError |-> GenericError, pc |-> "idle", invocations |-> 0,
     waits |-> <<>>, due |-> 0, value |-> "",
     thrown |-> <<>>, returned |-> <<>>]

\* The loop test and what follows it: fn() is called, or lastError is thrown.
RetryLoopOffByOne(s) ==
    IF s.attempt <= s.attempts
    THEN [s EXCEPT !.pc = "calling", !.invocations = @ + 1]
    ELSE [s EXCEPT !.pc = "rejected"]

RetryLoop(s) ==
    IF s.attempt < s.attempts
    THEN [s EXCEPT !.pc = "calling", !.invocations = @ + 1]
    ELSE [s EXCEPT !.pc = "rejected"]

\* return await fn(), fn() fulfilled with v
RetryResolvedKeepsGoing(s, v) ==
    [s EXCEPT !.value = v, !.pc = "waiting",
              !.waits = Append(@, s.delay * (s.attempt + 1)),
              !.due = s.due]

RetryResolved(s, v) == [s EXCEPT !.pc = "resolved", !.value = v]

\* catch (error): lastError is set and the timer of delay * (attempt + 1) starts
RetryCaughtConstantDelay(s, e, t) ==
    [s EXCEPT !.lastError = ToError(e),
              !.pc = "waiting",
              !.waits = Append(@, s.delay),
              !.due = t + s.delay]

RetryCaughtKeepsFirst(s, e, t) ==
    [s EXCEPT !.lastError = IF s.waits = <<>> THEN ToError(e) ELSE @,
              !.pc = "waiting",
              !.waits = Append(@, s.delay * (s.attempt + 1)),
              !.due = t + s.delay * (s.attempt + 1)]

RetryCaught(s, e, t) ==
    [s EXCEPT !.lastError = ToError(e),
              !.pc = "waiting",
              !.waits = Append(@, s.delay * (s.attempt + 1)),
              !.due = t + s.delay * (s.attempt + 1)]

\* the timer fired: attempt++ and the loop test
RetryTimer(s) == RetryLoop([s EXCEPT !.attempt = @ + 1, !.due = 0])

(***************************************************************************)
(* SpecRetry: retryRequest with an operation whose every invocation        *)
(* fulfils with a value or throws a value of the environment's choice.     *)
(***************************************************************************)
FnValues == {"v1", "v2"}

FnThrows == {Err("Error", "E1"), Err("Error", "E2"), Err("value", "s1")}

IdleRest ==
    /\ isClient = FALSE
    /\ localStorage = <<>>
    /\ mgr = <<>>
    /\ trace = <<>>
    /\ config = <<>>
    /\ cacheManagers = <<>>
    /\ calls = <<>>
    /\ invalidation = <<>>

InitRetry ==
    /\ now = 0
    /\ session \in {RetryInit(a, d) : a \in 0..MaxAttempts, d \in 0..MaxDelay}
    /\ IdleRest

RetryFrame ==
    UNCHANGED <<isClient, localStorage, mgr, trace, config, cacheManagers, calls,
                invalidation>>

\* retryRequest(fn, config) is called: it runs up to its first await
RetryCall ==
    /\ session.pc = "idle"
    /\ session' = RetryLoop(session)
    /\ UNCHANGED now
    /\ RetryFrame

RetryFnFulfils ==
    /\ session.pc = "calling"
    /\ \E v \in FnValues :
          session' = RetryResolved([session EXCEPT !.returned = Append(@, v)], v)
    /\ UNCHANGED now
    /\ RetryFrame

RetryFnThrows ==
    /\ session.pc = "calling"
    /\ \E e \in FnThrows :
          session' = RetryCaught([session EXCEPT !.thrown = Append(@, e)], e, now)
    /\ UNCHANGED now
    /\ RetryFrame

RetryTimerFires ==
    /\ session.pc = "waiting"
    /\ now >= session.due
    /\ session' = RetryTimer(session)
    /\ UNCHANGED now
    /\ RetryFrame

RetryTick ==
    /\ now < RetryMaxTime
    /\ now' = now + 1
    /\ UNCHANGED session
    /\ RetryFrame

NextRetry ==
    \/ RetryCall
    \/ RetryFnFulfils
    \/ RetryFnThrows
    \/ RetryTimerFires
    \/ RetryTick

SpecRetry == InitRetry /\ [][NextRetry]_vars

(***************************************************************************)
(* Claims about retryRequest, checked under SpecRetry.                     *)
(***************************************************************************)

\* C3: with attempts = n >= 1, fn is never invoked more than n times, and a
\* call whose fn threw on its first j < n invocations and then fulfilled
\* resolves with the fulfilled value after exactly j + 1 invocations and the
\* waits delay*1, ..., delay*j in that order (delay*j*(j+1)/2 in total).
C3_RetrySucceedsAfterFailures ==
    session.attempts >= 1 =>
        /\ session.invocations <= session.attempts
        /\ session.returned # <<>> =>
              LET j == Len(session.thrown) IN
              /\ j < session.attempts
              /\ session.pc = "resolved"
              /\ session.invocations = j + 1
              /\ session.waits = [i \in 1..j |-> session.delay * i]
              /\ 2 * SumSeq(session.waits) = session.delay * j * (j + 1)
              /\ session.value = session.returned[1]

\* attempts = 3, delay = 1: two failures, then success after waits 1 + 2 = 3
C3_Witness ==
    /\ session.pc = "resolved"
    /\ session.attempts = 3
    /\ session.delay = 1
    /\ Len(session.thrown) = 2
    /\ session.invocations = 3
    /\ SumSeq(session.waits) = 3

\* C4: when all n >= 1 invocations of fn threw, retryRequest rejects, and it
\* rejects with what the last invocation threw (as an Error: a thrown value
\* that is no Error is wrapped in one that carries it), whatever the earlier
\* invocations threw.
C4_RetryRejectsWithLastFailure ==
    /\ (session.attempts >= 1 /\ session.pc = "rejected") =>
          /\ Len(session.thrown) = session.attempts
          /\ session.lastError = ToError(Last(session.thrown))
          /\ session.lastError.detail = Last(session.thrown).detail
    /\ (session.attempts >= 1 /\ Len(session.thrown) = session.attempts) =>
          /\ session.pc \in {"waiting", "rejected"}
          /\ session.returned = <<>>

\* three failures, the first and the last of them different
C4_Witness ==
    /\ session.pc = "rejected"
    /\ session.attempts = 3
    /\ Len(session.thrown) = 3
    /\ session.thrown[1] # session.thrown[3]
    /\ session.thrown[1].detail = "E1"
    /\ session.lastError.detail = "E2"

\* C5: once an invocation of fn has fulfilled, the call is resolved with that
\* value: no wait was started after it (one wait per failure before it) and
\* fn was not invoked again (one invocation per failure before it, plus one).
C5_RetrySuccessShortCircuits ==
    session.returned # <<>> =>
        /\ session.pc = "resolved"
        /\ Len(session.returned) = 1
        /\ session.value = session.returned[1]
        /\ Len(session.waits) = Len(session.thrown)
        /\ session.invocations = Len(session.thrown) + 1

\* success on the first of three attempts, time going on after it
C5_Witness ==
    /\ session.returned # <<>>
    /\ session.attempts = 3
    /\ session.delay = 1
    /\ session.invocations = 1
    /\ session.waits = <<>>
    /\ now = RetryMaxTime

(***************************************************************************)
(* Cached data.  "NaN" stands for the values JSON cannot represent:        *)
(* JSON.stringify writes it as null, so it does not survive the persistent *)
(* variant's round trip.                                                   *)
(***************************************************************************)
Data == {"v1", "v2", "NaN"}

\* JSON.parse(JSON.stringify(d))
JsonData(d) == IF d = "NaN" THEN "null" ELSE d

\* CacheEntry<T>: { data, timestamp }
Entry(d, t) == [data |-> d, timestamp |-> t]

(***************************************************************************)
(* MemoryStorage: storage is a Map, here a function key -> optional entry. *)
(***************************************************************************)
MemoryStorage_new(keys) == [k \in keys |-> None]

MemoryStorage_get(storage, key) == storage[key]

MemoryStorage_setIfAbsent(storage, key, value) ==
    IF storage[key] = None THEN [storage EXCEPT ![key] = Some(value)] ELSE storage

MemoryStorage_set(storage, key, value) == [storage EXCEPT ![key] = Some(value)]

(***************************************************************************)
(* LocalStorage: the items of window.localStorage under prefix             *)
(* 'tea-cache:', a function key -> optional item, where an item is the     *)
(* stored text: parses says whether JSON.parse accepts it, data and        *)
(* timestamp what it parses to.  client is this.isClient.                  *)
(***************************************************************************)
\* JSON.stringify(value) of an entry
JSON_stringify(value) ==
    [parses |-> TRUE, data |-> JsonData(value.data), timestamp |-> value.timestamp]

\* JSON.parse(item) of an item that parses
JSON_parse(item) == Entry(item.data, item.timestamp)

LocalStorage_getAnywhere(client, items, key) ==
    IF items[key] = None THEN None
    ELSE IF ~Val(items[key]).parses THEN None
    ELSE Some(JSON_parse(Val(items[key])))

LocalStorage_get(client, items, key) ==
    IF ~client THEN None
    ELSE IF items[key] = None THEN None
    ELSE IF ~Val(items[key]).parses THEN None
    ELSE Some(JSON_parse(Val(items[key])))

\* stored is FALSE when localStorage.setItem throws (quota exceeded)
LocalStorage_set(client, items, key, value, stored) ==
    IF ~client THEN items
    ELSE IF stored THEN [items EXCEPT ![key] = Some(JSON_stringify(value))]
    ELSE items

\* an item under the prefix that JSON.parse rejects
Corrupt == [parses |-> FALSE, data |-> "", timestamp |-> 0]

\* LocalStorage.delete(key)
LocalStorage_delete(client, items, key) ==
    IF ~client THEN items ELSE [items EXCEPT ![key] = None]

\* LocalStorage.clear(): every item under the prefix is removed
LocalStorage_clear(client, items) ==
    IF ~client THEN items ELSE [k \in DOMAIN items |-> None]

\* LocalStorage.forEach(callback): the keys the callback is called with,
\* those of the items under the prefix for which this.get gives an entry
LocalStorage_forEach(client, items) ==
    IF ~client THEN {}
    ELSE {k \in DOMAIN items : LocalStorage_get(client, items, k) # None}

(***************************************************************************)
(* How a LocalStorage method completes: it "returns" or it "throws".       *)
(* JSON.parse throws on an item it rejects and localStorage.setItem throws *)
(* when stored is FALSE; get and set run them inside try/catch.            *)
(***************************************************************************)
LocalStorage_get_uncaught(client, items, key) ==
    IF client /\ items[key] # None /\ ~Val(items[key]).parses
    THEN "throws" ELSE "returns"

LocalStorage_get_completion(client, items, key) ==
    IF ~client THEN "returns"
    ELSE IF items[key] = None THEN "returns"
    ELSE IF ~Val(items[key]).parses THEN "returns"   \* catch { return null }
    ELSE "returns"

LocalStorage_set_uncaught(client, stored) ==
    IF client /\ ~stored THEN "throws" ELSE "returns"

LocalStorage_set_completion(client, stored) ==
    IF ~client THEN "returns"
    ELSE IF ~stored THEN "returns"                   \* catch { console.warn }
    ELSE "returns"

\* forEach reads every item through this.get
LocalStorage_forEach_completion(client, items) ==
    IF \E k \in DOMAIN items : LocalStorage_get_completion(client, items, k) = "throws"
    THEN "throws" ELSE "returns"

(***************************************************************************)
(* CacheManager.  A manager is its fields: strategy, options.staleTime,    *)
(* options.refetchOnWindowFocus, refetchCallback (None when the            *)
(* constructor got no onRefetch) and cache, the storage (storage holds the *)
(* Map of a MemoryStorage; a LocalStorage has no state of its own).        *)
(* options.refetchOnMount is stored and never read.                        *)
(***************************************************************************)
Strategies == {"memory", "none", "local-storage"}

CacheManager_new(strategy, staleTime, refetchOnWindowFocus, onRefetch, keys) ==
    [strategy |-> strategy, staleTime |-> staleTime,
     refetchOnWindowFocus |-> refetchOnWindowFocus,
     refetchCallback |-> onRefetch,
     storage |-> MemoryStorage_new(keys)]

\* this.cache.get(key)
Cache_get(m, client, items, key) ==
    IF m.strategy = "local-storage"
    THEN LocalStorage_get(client, items, key)
    ELSE MemoryStorage_get(m.storage, key)

\* this.cache.set(key, value) of a manager that keeps nothing under the
\* strategy none
Cache_set_managerUnlessNone(m, key, value) ==
    IF m.strategy \in {"local-storage", "none"}
    THEN m
    ELSE [m EXCEPT !.storage = MemoryStorage_set(@, key, value)]

\* this.cache.set(key, value): the manager after it
Cache_set_manager(m, key, value) ==
    IF m.strategy = "local-storage"
    THEN m
    ELSE [m EXCEPT !.storage = MemoryStorage_set(@, key, value)]

\* this.cache.set(key, value): window.localStorage after it
Cache_set_items(m, client, items, key, value, stored) ==
    IF m.strategy = "local-storage"
    THEN LocalStorage_set(client, items, key, value, stored)
    ELSE items

\* this.cache.set(key, value): how it completes
Cache_set_completion(m, client, stored) ==
    IF m.strategy = "local-storage"
    THEN LocalStorage_set_completion(client, stored)
    ELSE "returns"

\* this.cache.get(key): how it completes
Cache_get_completion(m, client, items, key) ==
    IF m.strategy = "local-storage"
    THEN LocalStorage_get_completion(client, items, key)
    ELSE "returns"

\* isStale(entry) at Date.now() = t
isStaleAtThreshold(m, entry, t) == t - entry.timestamp >= m.staleTime

isStaleOnlyAtExpiry(m, entry, t) == t - entry.timestamp = m.staleTime + 1

isStaleIgnoresStaleTime(m, entry, t) == t - entry.timestamp > 0

isStale(m, entry, t) == t - entry.timestamp > m.staleTime

\* get(key) at Date.now() = t: absent, or the entry tagged with its status
CacheManager_get(m, client, items, key, t) ==
    LET entry == Cache_get(m, client, items, key) IN
    IF entry = None THEN None
    ELSE Some([data |-> Val(entry).data,
               timestamp |-> Val(entry).timestamp,
               status |-> IF isStale(m, Val(entry), t) THEN "stale" ELSE "fresh"])

\* set(key, data) at Date.now() = t
CacheManager_set_manager(m, key, data, t) == Cache_set_manager(m, key, Entry(data, t))

CacheManager_set_items(m, client, items, key, data, t, stored) ==
    Cache_set_items(m, client, items, key, Entry(data, t), stored)

\* invalidate(key): the entry, if any, is written back as it is
CacheManager_invalidate_drops(m, client, items, key) ==
    IF m.strategy = "local-storage" THEN m
    ELSE [m EXCEPT !.storage = [@ EXCEPT ![key] = None]]

CacheManager_invalidate_manager(m, client, items, key) ==
    LET entry == Cache_get(m, client, items, key) IN
    IF entry = None THEN m ELSE Cache_set_manager(m, key, Val(entry))

CacheManager_invalidate_items(m, client, items, key, stored) ==
    LET entry == Cache_get(m, client, items, key) IN
    IF entry = None THEN items
    ELSE Cache_set_items(m, client, items, key, Val(entry), stored)

\* invalidateAll(): this.cache.forEach visits the keys in order and writes
\* each entry back as it is; failing is the keys whose setItem fails.  The
\* result is the manager and window.localStorage after it.
RECURSIVE CacheManager_invalidateAll(_, _, _, _, _)
CacheManager_invalidateAll(m, client, items, order, failing) ==
    IF order = <<>> THEN [manager |-> m, items |-> items]
    ELSE LET key == Head(order)
             entry == Val(Cache_get(m, client, items, key))
         IN CacheManager_invalidateAll(
                Cache_set_manager(m, key, entry), client,
                Cache_set_items(m, client, items, key, entry, key \notin failing),
                Tail(order), failing)

\* clear(): this.cache is replaced by a new storage of the same strategy
CacheManager_clear(m) == [m EXCEPT !.storage = [k \in DOMAIN m.storage |-> None]]

(***************************************************************************)
(* SpecCache: one CacheManager, constructed with a strategy and a          *)
(* staleTime, and a caller that uses set, get, invalidate(All), clear while *)
(* time passes.  trace keeps the last set (key, data, instant, the entry   *)
(* it replaced, whether the storage took it) and the gets since then, and  *)
(* the last clear (the keys that held an entry when it was called) as long *)
(* as only gets followed it.                                               *)
(***************************************************************************)
Keys == {"k1", "k2"}

NoTrace == [lastSet |-> None, lastGet |-> None, lastClear |-> None]

InitCache ==
    /\ now = 0
    /\ isClient \in BOOLEAN
    /\ localStorage = [k \in Keys |-> None]
    /\ mgr \in {CacheManager_new(st, t, FALSE, None, Keys) :
                    st \in Strategies, t \in 0..MaxStaleTime}
    /\ trace = NoTrace
    /\ session = <<>>
    /\ config = <<>>
    /\ cacheManagers = <<>>
    /\ calls = <<>>
    /\ invalidation = <<>>

CacheFrame == UNCHANGED <<session, isClient, config, cacheManagers, calls, invalidation>>

\* whether a write reaches window.localStorage at all
Persists(m) == m.strategy = "local-storage" /\ isClient

CacheSet ==
    \E key \in Keys, data \in Data, stored \in BOOLEAN :
        /\ stored \/ Persists(mgr)
        /\ mgr' = CacheManager_set_manager(mgr, key, data, now)
        /\ localStorage' =
              CacheManager_set_items(mgr, isClient, localStorage, key, data, now, stored)
        /\ trace' = [lastSet |-> Some([key |-> key, data |-> data, at |-> now,
                                       stored |-> stored,
                                       over |-> Cache_get(mgr, isClient, localStorage, key)]),
                     lastGet |-> None,
                     lastClear |-> None]
        /\ UNCHANGED now
        /\ CacheFrame

CacheGet ==
    \E key \in Keys :
        /\ trace' = [trace EXCEPT !.lastGet =
                        Some([key |-> key, at |-> now,
                              state |-> CacheManager_get(mgr, isClient, localStorage, key, now)])]
        /\ UNCHANGED <<now, mgr, localStorage>>
        /\ CacheFrame

CacheInvalidate ==
    \E key \in Keys, stored \in BOOLEAN :
        /\ stored \/ (Persists(mgr) /\ Cache_get(mgr, isClient, localStorage, key) # None)
        /\ mgr' = CacheManager_invalidate_manager(mgr, isClient, localStorage, key)
        /\ localStorage' =
              CacheManager_invalidate_items(mgr, isClient, localStorage, key, stored)
        /\ trace' = NoTrace
        /\ UNCHANGED now
        /\ CacheFrame

CacheInvalidateAll ==
    LET keys == {k \in Keys : Cache_get(mgr, isClient, localStorage, k) # None} IN
    \E order \in [1..Cardinality(keys) -> keys],
       failing \in SUBSET keys :
        /\ \A i, j \in DOMAIN order : order[i] = order[j] => i = j
        /\ failing = {} \/ Persists(mgr)
        /\ LET after == CacheManager_invalidateAll(mgr, isClient, localStorage,
                                                   order, failing)
           IN /\ mgr' = after.manager
              /\ localStorage' = after.items
        /\ trace' = NoTrace
        /\ UNCHANGED now
        /\ CacheFrame

CacheClear ==
    /\ mgr' = CacheManager_clear(mgr)
    /\ trace' = [NoTrace EXCEPT !.lastClear =
                    Some({k \in Keys : Cache_get(mgr, isClient, localStorage, k) # None})]
    /\ UNCHANGED <<now, localStorage>>
    /\ CacheFrame

CacheTick ==
    /\ now < MaxTime
    /\ now' = now + 1
    /\ UNCHANGED <<mgr, localStorage, trace>>
    /\ CacheFrame

NextCache ==
    \/ CacheSet
    \/ CacheGet
    \/ CacheInvalidate
    \/ CacheInvalidateAll
    \/ CacheClear
    \/ CacheTick

SpecCache == InitCache /\ [][NextCache]_vars

(***************************************************************************)
(* Claims about CacheManager, checked under SpecCache.                     *)
(***************************************************************************)

\* a get of the key of the last set, with no other call and no time between
GetRightAfterSet ==
    /\ IsSome(trace.lastSet)
    /\ IsSome(trace.lastGet)
    /\ Val(trace.lastGet).key = Val(trace.lastSet).key
    /\ Val(trace.lastGet).at = Val(trace.lastSet).at

\* what such a get must return: the data of the set, fresh
ReturnsTheSetDataFresh ==
    /\ IsSome(Val(trace.lastGet).state)
    /\ Val(Val(trace.lastGet).state).data = Val(trace.lastSet).data
    /\ Val(Val(trace.lastGet).state).status = "fresh"

\* C10 as stated: get(K) right after set(K, V) returns V, fresh, for every
\* manager (every strategy and every staleTime >= 0).
C10_GetAfterSetAnyStrategy == GetRightAfterSet => ReturnsTheSetDataFresh

\* C10, amended: get(K) right after set(K, V), no time elapsed, returns data
\* V with status fresh for every staleTime >= 0 and whatever K held before,
\* when the storage is the memory one (strategy memory or none), or the
\* persistent one with localStorage available, the write not failing and V
\* a value JSON represents.
C10_GetAfterSetFresh ==
    (/\ GetRightAfterSet
     /\ mgr.staleTime >= 0
     /\ \/ mgr.strategy # "local-storage"
        \/ /\ isClient
           /\ Val(trace.lastSet).stored
           /\ JsonData(Val(trace.lastSet).data) = Val(trace.lastSet).data)
    => /\ ReturnsTheSetDataFresh
       /\ Val(Val(trace.lastGet).state).timestamp = Val(trace.lastSet).at

\* staleTime 0, the set replacing an older entry with other data
C10_Witness ==
    /\ GetRightAfterSet
    /\ ReturnsTheSetDataFresh
    /\ mgr.staleTime = 0
    /\ now > 0
    /\ IsSome(Val(trace.lastSet).over)
    /\ Val(Val(trace.lastSet).over).data # Val(trace.lastSet).data
    /\ Val(Val(trace.lastSet).over).timestamp < now

\* a get of the key of the last set, after it, with only gets and the
\* passing of time between, the storage having taken the entry
GetAfterSetStored ==
    /\ IsSome(trace.lastSet)
    /\ IsSome(trace.lastGet)
    /\ Val(trace.lastGet).key = Val(trace.lastSet).key
    /\ \/ mgr.strategy # "local-storage"
       \/ isClient /\ Val(trace.lastSet).stored

\* C11: for an entry written at t0 under a stale time S, get at time t
\* returns the entry with its timestamp t0, tagged fresh exactly when
\* t - t0 <= S and stale exactly when t - t0 > S; t - t0 = S is fresh.
C11_FreshExactlyWithinStaleTime ==
    GetAfterSetStored =>
        LET state == Val(trace.lastGet).state
            elapsed == Val(trace.lastGet).at - Val(trace.lastSet).at
        IN /\ IsSome(state)
           /\ Val(state).timestamp = Val(trace.lastSet).at
           /\ Val(state).status \in {"fresh", "stale"}
           /\ Val(state).status = "fresh" <=> elapsed <= mgr.staleTime
           /\ Val(state).status = "stale" <=> elapsed > mgr.staleTime

\* the boundary: a positive stale time, a get exactly that long after the set
C11_Witness ==
    /\ GetAfterSetStored
    /\ mgr.staleTime > 0
    /\ Val(trace.lastGet).at - Val(trace.lastSet).at = mgr.staleTime
    /\ IsSome(Val(trace.lastGet).state)
    /\ Val(Val(trace.lastGet).state).status = "fresh"

\* C12: for either storage strategy, a get that follows clear() returns
\* absent for every key that held an entry (set before) when clear() was
\* called.
C12_GetAfterClearIsAbsent ==
    (/\ IsSome(trace.lastClear)
     /\ IsSome(trace.lastGet)
     /\ Val(trace.lastGet).key \in Val(trace.lastClear))
    => Val(trace.lastGet).state = None

(***************************************************************************)
(* The CacheManager methods that use the refetch callback.                 *)
(*                                                                         *)
(* this.cache.forEach visits the entries in the storage's order (the       *)
(* insertion order of the Map, the key order of window.localStorage); the  *)
(* model keeps no such order, so a visit takes any order of the keys.      *)
(***************************************************************************)
\* a forEach that calls back once, with one of the keys
Cache_keysOne(m, client, items) ==
    LET held == {k \in DOMAIN m.storage : Cache_get(m, client, items, k) # None}
    IN IF held = {} THEN {} ELSE {CHOOSE k \in held : TRUE}

\* the keys this.cache.forEach calls back with: for the persistent storage
\* every item under the prefix that get() returns, whoever wrote it
Cache_keys(m, client, items) ==
    {k \in DOMAIN m.storage : Cache_get(m, client, items, k) # None}

\* the orders a visit of the keys can take
Orders(keys) ==
    {order \in [1..Cardinality(keys) -> keys] :
        \A i, j \in 1..Cardinality(keys) : order[i] = order[j] => i = j}

Range(seq) == {seq[i] : i \in 1..Len(seq)}

\* invalidateAndRefetch, first loop, with every entry written back as it is
RECURSIVE invalidateAndRefetch_rewrite(_, _, _, _, _, _)
invalidateAndRefetch_rewrite(m, client, items, entries, t, failing) ==
    IF entries = <<>> THEN [manager |-> m, items |-> items]
    ELSE LET key == Head(entries)
             newEntry == Val(Cache_get(m, client, items, key))
         IN invalidateAndRefetch_rewrite(
                Cache_set_manager(m, key, newEntry), client,
                Cache_set_items(m, client, items, key, newEntry, key \notin failing),
                Tail(entries), t, failing)

\* invalidateAndRefetch, first loop: every entry of the snapshot is written
\* back with timestamp Date.now() = t; failing is the keys whose setItem
\* throws.  The result is the manager and window.localStorage after it.
RECURSIVE invalidateAndRefetch_refresh(_, _, _, _, _, _)
invalidateAndRefetch_refresh(m, client, items, entries, t, failing) ==
    IF entries = <<>> THEN [manager |-> m, items |-> items]
    ELSE LET key == Head(entries)
             newEntry == Entry(Val(Cache_get(m, client, items, key)).data, t)
         IN invalidateAndRefetch_refresh(
                Cache_set_manager(m, key, newEntry), client,
                Cache_set_items(m, client, items, key, newEntry, key \notin failing),
                Tail(entries), t, failing)

\* the keys a focus event calls the refetch callback with, in order, when
\* it calls it for every entry
refetchAllEntries(m, client, items, order, t) ==
    IF m.refetchCallback = None THEN <<>> ELSE order

\* refetchAllStaleEntries() at Date.now() = t, the storage visited in order:
\* the keys the refetch callback is called with, in order
refetchAllStaleEntries(m, client, items, order, t) ==
    IF m.refetchCallback = None THEN <<>>
    ELSE SelectSeq(order, LAMBDA k : isStale(m, Val(Cache_get(m, client, items, k)), t))

(***************************************************************************)
(* SpecRefetch: one CacheManager constructed with or without a refetch     *)
(* callback, a caller that uses set and invalidateAndRefetch (one call at  *)
(* a time) while time passes, and a callback that settles as it likes.     *)
(* SpecFocus: one CacheManager constructed with refetchOnWindowFocus, with *)
(* or without a refetch callback, a caller that uses set while time        *)
(* passes, and the window's focus events.                                  *)
(* invalidation holds the invalidateAndRefetch call: pc ("idle",           *)
(* "awaiting" a callback, "resolved", "rejected"), entries (the snapshot,  *)
(* keys in order), and what it did: at (the instant of the first loop),    *)
(* failing (the keys whose write failed), refreshed (the keys whose entry  *)
(* had timestamp at when the first callback was due), invoked (the keys    *)
(* the callback was called with, in order), settled (the callbacks that    *)
(* settled); focused is the keys the last focus event called the callback  *)
(* with.                                                                   *)
(***************************************************************************)
NoRefetch ==
    [pc |-> "idle", entries |-> <<>>, at |-> 0, failing |-> {}, refreshed |-> {},
     invoked |-> <<>>, settled |-> 0, focused |-> None]

RefetchData == {"v1", "v2"}

InitManager ==
    /\ now = 0
    /\ localStorage = [k \in Keys |-> None]
    /\ trace = NoTrace
    /\ invalidation = NoRefetch
    /\ session = <<>>
    /\ config = <<>>
    /\ cacheManagers = <<>>
    /\ calls = <<>>

InitRefetch ==
    /\ InitManager
    /\ \/ /\ isClient = TRUE
          /\ mgr \in {CacheManager_new("memory", 0, FALSE, None, Keys),
                      CacheManager_new("memory", 0, FALSE,
                                       Some("onRefetch"), Keys),
                      CacheManager_new("local-storage", 0, FALSE,
                                       Some("onRefetch"), Keys)}
       \/ /\ isClient = FALSE
          /\ mgr = CacheManager_new("local-storage", 0, FALSE,
                                    Some("onRefetch"), Keys)

InitFocus ==
    /\ InitManager
    /\ isClient = TRUE
    /\ mgr \in {CacheManager_new(st, t, TRUE, onRefetch, Keys) :
                    st \in {"memory", "local-storage"}, t \in 0..MaxStaleTime,
                    onRefetch \in {None, Some("onRefetch")}}

RefetchFrame == UNCHANGED <<now, session, isClient, trace, config, cacheManagers, calls>>

\* set(key, data) by the caller
SetEntry ==
    /\ \E key \in Keys, data \in RefetchData, stored \in BOOLEAN :
          /\ stored \/ Persists(mgr)
          /\ mgr' = CacheManager_set_manager(mgr, key, data, now)
          /\ localStorage' =
                CacheManager_set_items(mgr, isClient, localStorage, key, data, now, stored)
    /\ UNCHANGED invalidation
    /\ RefetchFrame

\* invalidateAndRefetch() is called: it runs up to its first await
InvalidateAndRefetch ==
    /\ invalidation.pc # "awaiting"
    /\ \E entries \in Orders(Cache_keys(mgr, isClient, localStorage)) :
       \E failing \in SUBSET (IF Persists(mgr) THEN Range(entries) ELSE {}) :
          LET after == invalidateAndRefetch_refresh(mgr, isClient, localStorage,
                                                    entries, now, failing)
              calling == mgr.refetchCallback # None /\ entries # <<>>
          IN /\ mgr' = after.manager
             /\ localStorage' = after.items
             /\ invalidation' =
                   [invalidation EXCEPT
                      !.pc = IF calling THEN "awaiting" ELSE "resolved",
                      !.entries = entries,
                      !.at = now,
                      !.failing = failing,
                      !.refreshed =
                          {k \in Range(entries) :
                              Cache_get(after.manager, isClient, after.items, k)
                                 = Some(Entry(Val(Cache_get(mgr, isClient,
                                                            localStorage, k)).data,
                                              now))},
                      !.invoked = IF calling THEN <<entries[1]>> ELSE <<>>,
                      !.settled = 0]
    /\ RefetchFrame

\* the awaited callback settles: the next one is called, or the call settles
RefetchCallbackSettles ==
    /\ invalidation.pc = "awaiting"
    /\ \E fulfilled \in BOOLEAN :
          invalidation' =
             [invalidation EXCEPT
                !.settled = @ + 1,
                !.pc = IF ~fulfilled THEN "rejected"
                       ELSE IF Len(invalidation.invoked) < Len(invalidation.entries)
                       THEN "awaiting" ELSE "resolved",
                !.invoked = IF fulfilled /\ Len(@) < Len(invalidation.entries)
                            THEN Append(@, invalidation.entries[Len(@) + 1])
                            ELSE @]
    /\ UNCHANGED <<mgr, localStorage>>
    /\ RefetchFrame

\* a focus event of the window: the listener the constructor registered
\* runs refetchAllStaleEntries, which does not await the callbacks
CacheFocus ==
    /\ mgr.refetchOnWindowFocus
    /\ isClient
    /\ \E order \in Orders(Cache_keys(mgr, isClient, localStorage)) :
          invalidation' =
             [invalidation EXCEPT !.focused =
                 Some(refetchAllStaleEntries(mgr, isClient, localStorage, order, now))]
    /\ UNCHANGED <<mgr, localStorage>>
    /\ RefetchFrame

NextRefetch ==
    \/ SetEntry
    \/ InvalidateAndRefetch
    \/ RefetchCallbackSettles
    \/ CacheTick

SpecRefetch == InitRefetch /\ [][NextRefetch]_vars

NextFocus ==
    \/ SetEntry
    \/ CacheFocus
    \/ CacheTick

SpecFocus == InitFocus /\ [][NextFocus]_vars

(***************************************************************************)
(* Claims about invalidateAndRefetch, checked under SpecRefetch, and about *)
(* the focus refetch, checked under SpecFocus.                             *)
(***************************************************************************)

\* the callback is invoked for the keys of the snapshot in order, one at a
\* time: each invocation but the first follows the settling of the one before
OneAtATimeInOrder ==
    /\ Len(invalidation.invoked) <= Len(invalidation.entries)
    /\ invalidation.invoked = SubSeq(invalidation.entries, 1, Len(invalidation.invoked))
    /\ Len(invalidation.invoked) =
          invalidation.settled + (IF invalidation.pc = "awaiting" THEN 1 ELSE 0)

\* C19 as stated: the timestamp of every entry present at the start is
\* refreshed to now before the callback is invoked for any key, and the
\* callback is then invoked exactly once per such key, one at a time, each
\* invocation starting only after the previous one settled.
C19_TwoPhaseEveryKeyOnce ==
    invalidation.pc # "idle" =>
        /\ invalidation.refreshed = Range(invalidation.entries)
        /\ OneAtATimeInOrder
        /\ (invalidation.pc \in {"resolved", "rejected"} /\ mgr.refetchCallback # None)
           => invalidation.invoked = invalidation.entries

\* C19, amended: the timestamp of every entry present at the start whose
\* write the storage takes (every entry with the memory storage) is
\* refreshed to now before the callback is invoked for any key; the
\* callback is then invoked one key at a time in the snapshot's order, each
\* invocation starting only after the previous one fulfilled, at most once
\* per key and exactly once per key when invalidateAndRefetch resolves; the
\* first invocation that rejects ends the call, which rejects without
\* invoking the callback for the remaining keys.
C19_TwoPhaseUntilRejection ==
    invalidation.pc # "idle" =>
        /\ Range(invalidation.entries) \ invalidation.failing \subseteq invalidation.refreshed
        /\ mgr.strategy # "local-storage" => invalidation.failing = {}
        /\ OneAtATimeInOrder
        /\ (invalidation.pc = "resolved" /\ mgr.refetchCallback # None)
           => invalidation.invoked = invalidation.entries
        /\ mgr.refetchCallback = None => invalidation.invoked = <<>>

\* two entries written before, both refreshed later, the callback invoked
\* for the one and, after it settled, for the other
C19_Witness ==
    /\ invalidation.pc = "resolved"
    /\ Len(invalidation.entries) = 2
    /\ invalidation.at > 0
    /\ invalidation.refreshed = Range(invalidation.entries)
    /\ invalidation.invoked = invalidation.entries
    /\ invalidation.settled = 2

\* the keys whose entry is stale at Date.now()
StaleKeys ==
    {k \in Keys :
        /\ Cache_get(mgr, isClient, localStorage, k) # None
        /\ now - Val(Cache_get(mgr, isClient, localStorage, k)).timestamp > mgr.staleTime}

\* C20: with refetchOnWindowFocus configured and a refetch callback
\* supplied, a focus event invokes the callback exactly once for every entry
\* that is stale at that time and not at all for a fresh one, and modifies
\* no entry.
C20_FocusRefetchesStaleOnly ==
    [][(CacheFocus /\ mgr.refetchCallback # None) =>
          /\ invalidation'.focused # None
          /\ Range(Val(invalidation'.focused)) = StaleKeys
          /\ Len(Val(invalidation'.focused)) = Cardinality(StaleKeys)
          /\ mgr' = mgr
          /\ localStorage' = localStorage]_vars

\* a focus event with one stale entry and one fresh: one invocation
C20_Witness ==
    /\ invalidation.focused # None
    /\ Len(Val(invalidation.focused)) = 1
    /\ Cardinality(StaleKeys) = 1
    /\ Range(Val(invalidation.focused)) = StaleKeys
    /\ Cardinality(Cache_keys(mgr, isClient, localStorage)) = 2

(***************************************************************************)
(* The request pipeline: createTea(baseUrl, routes, config) of core and    *)
(* the function request(routeName, options, cache) it returns.             *)
(*                                                                         *)
(* JavaScript values of params and query are a type tag and the text       *)
(* String(value) gives; an object is the sequence of its <<name, value>>   *)
(* properties in insertion order; an option that is undefined is None.     *)
(***************************************************************************)
Undefined == [t |-> "undefined", s |-> "undefined"]

Str(s) == [t |-> "string", s |-> s]

Num(s) == [t |-> "number", s |-> s]

\* String(value)
String(value) == value.s

\* encodeURIComponent(text), on the texts of the model
encodeURIComponent(text) == IF text = "a/b" THEN "a%2Fb" ELSE text

\* the routes given to createTea: a path is the sequence of its segments
routes ==
    [getUsers |-> [method |-> "GET", path |-> <<"users">>],
     getUser  |-> [method |-> "GET", path |-> <<"users", ":id">>]]

Placeholders == {":id"}

\* url.replace(`:${key}`, text): the first occurrence only
RECURSIVE ReplaceFirst(_, _, _)
ReplaceFirst(url, pattern, text) ==
    IF url = <<>> THEN <<>>
    ELSE IF Head(url) = pattern THEN <<text>> \o Tail(url)
    ELSE <<Head(url)>> \o ReplaceFirst(Tail(url), pattern, text)

RECURSIVE ReplaceEntries(_, _)
ReplaceEntries(url, entries) ==
    IF entries = <<>> THEN url
    ELSE ReplaceEntries(
            ReplaceFirst(url, ":" \o entries[1][1],
                         encodeURIComponent(String(entries[1][2]))),
            Tail(entries))

\* parseRoute(route, params)
parseRoute(route, params) ==
    IF params = None THEN route ELSE ReplaceEntries(route, Val(params))

\* appendQueryParams(url, query): url.searchParams after it
RECURSIVE AppendEntries(_, _)
AppendEntries(searchParams, entries) ==
    IF entries = <<>> THEN searchParams
    ELSE AppendEntries(
            IF entries[1][2] # Undefined
            THEN Append(searchParams, <<entries[1][1], String(entries[1][2])>>)
            ELSE searchParams,
            Tail(entries))

appendQueryParams(searchParams, query) ==
    IF query = None THEN searchParams ELSE AppendEntries(searchParams, Val(query))

\* url.toString() of new URL(parseRoute(route.path, params), baseUrl) after
\* appendQueryParams(url, query)
RequestUrl(input) ==
    [path |-> parseRoute(routes[input.routeName].path, input.params),
     search |-> appendQueryParams(<<>>, input.query)]

\* the texts String(value) gives for the numbers that are not finite
NonFinite == {"NaN", "Infinity", "-Infinity"}

\* JSON.stringify of a value: a string and a finite number keep their type
\* and text, a number that is not finite becomes null
JSON_value(value) ==
    IF value.t = "number" /\ value.s \in NonFinite
    THEN [t |-> "null", s |-> "null"]
    ELSE value

\* JSON.stringify of an object: its properties in insertion order, the
\* undefined ones left out
RECURSIVE JSON_entries(_)
JSON_entries(entries) ==
    IF entries = <<>> THEN <<>>
    ELSE (IF entries[1][2] = Undefined THEN <<>>
          ELSE <<<<entries[1][1], JSON_value(entries[1][2])>>>>)
         \o JSON_entries(Tail(entries))

JSON_object(object) ==
    IF object = None THEN None ELSE Some(JSON_entries(Val(object)))

\* JSON.stringify({ routeName, params, query })
cacheKeyOf(input) ==
    [routeName |-> input.routeName,
     params |-> JSON_object(input.params),
     query |-> JSON_object(input.query)]

Input(routeName, params, query) ==
    [routeName |-> routeName, params |-> params, query |-> query]

\* the options of the calls the callers of the model make
CallInputs ==
    {Input("getUsers", None, None),
     Input("getUser", Some(<<<<"id", Str("42")>>>>), None),
     Input("getUser", None, None)}

\* the calls they make: the options and the cache argument
CallShapes ==
    {<<Input("getUsers", None, None), TRUE>>,
     <<Input("getUsers", None, None), FALSE>>,
     <<Input("getUser", Some(<<<<"id", Str("42")>>>>), None), TRUE>>,
     <<Input("getUser", None, None), TRUE>>}

CacheKeys == {cacheKeyOf(i) : i \in CallInputs}

\* the options of calls that list the same properties in different orders
\* or hold numbers that are not finite
KeyInputs ==
    {Input("getUsers", None, Some(<<<<"page", Num("1")>>, <<"sort", Str("name")>>>>)),
     Input("getUsers", None, Some(<<<<"sort", Str("name")>>, <<"page", Num("1")>>>>)),
     Input("getUser", Some(<<<<"id", Num("NaN")>>>>), None),
     Input("getUser", Some(<<<<"id", Num("Infinity")>>>>), None),
     Input("getUser", Some(<<<<"id", Str("42")>>>>), None)}

KeyCacheKeys == {cacheKeyOf(i) : i \in KeyInputs}


(***************************************************************************)
(* What a fetch can come to.  kind "network": fetch rejects; "http":       *)
(* response.ok is false, body is what response.json() gives (None when it  *)
(* rejects); "text": response.ok and response.json() rejects; "json":      *)
(* response.ok and response.json() gives body.                             *)
(***************************************************************************)
Outcome(kind, status, body) == [kind |-> kind, status |-> status, body |-> body]

\* the bodies: one the schema of the route takes as it is, an envelope, one
\* the schema rejects, and one ("abc") the schema transforms into a value
\* JSON cannot represent (z.string().transform(Number) gives NaN)
RawBodies == {"v1", "env", "bad", "abc"}

\* response.status of the responses fetch fulfils with
Statuses == {200, 404, 500}

Outcomes ==
    {Outcome("network", 0, None),
     Outcome("http", 404, Some("not found")),
     Outcome("http", 500, None),
     Outcome("text", 200, None)}
    \cup {Outcome("json", 200, Some(b)) : b \in RawBodies}

\* what the promise a call is suspended at can settle with: `await fetch`
\* (head None) is resumed here only by a rejection, a fulfilment being
\* followed by the await of response.json(); `await response.json()` by
\* what the body of the response of that status comes to
PendingOutcomes(head) ==
    IF head = None
    THEN {o \in Outcomes : o.kind = "network"}
    ELSE {o \in Outcomes : o.kind # "network" /\ o.status = Val(head)}

\* fullConfig.interceptors.response of the model: it unwraps an envelope
responseInterceptor(data) == IF data = "env" THEN "v2x" ELSE data

\* fullConfig.interceptors?.response?.(data) ?? data
processedDataRaw(cfg, data) == data

processedData(cfg, data) ==
    IF cfg.interceptors THEN responseInterceptor(data) ELSE data

\* route.schema.response.parse(data): None when it throws a ZodError;
\* unknown properties ("v2x") are stripped, and a transform of the schema
\* gives what it gives ("abc" becomes NaN)
response_parse(data) ==
    IF data = "v1" THEN Some("v1")
    ELSE IF data = "v2x" THEN Some("v2")
    ELSE IF data = "abc" THEN Some("NaN")
    ELSE None

\* `HTTP Error ${response.status}: ${response.statusText}`
HttpErrorMessage(status) ==
    IF status = 404 THEN "HTTP Error 404: Not Found"
    ELSE IF status = 500 THEN "HTTP Error 500: Internal Server Error"
    ELSE "HTTP Error"

\* what executeRequest makes of a settled fetch: [ok, value, error]
Thrown(e) == [ok |-> FALSE, value |-> "", error |-> e]

Returned(v) == [ok |-> TRUE, value |-> v, error |-> Err("none", "")]

executeRequest_unvalidated(cfg, outcome) ==
    IF outcome.kind = "network" THEN Thrown(Err("Error", "fetch failed"))
    ELSE IF outcome.kind = "http" THEN Thrown(Err("Error", HttpErrorMessage(outcome.status)))
    ELSE IF outcome.kind = "text" THEN Thrown(Err("Error", "SyntaxError"))
    ELSE Returned(processedData(cfg, Val(outcome.body)))

executeRequest_result(cfg, outcome) ==
    IF outcome.kind = "network" THEN Thrown(Err("Error", "fetch failed"))
    ELSE IF outcome.kind = "http" THEN
        IF IsSome(outcome.body)
        THEN Thrown(Err("Error", Val(outcome.body)))
        ELSE Thrown(Err("Error", HttpErrorMessage(outcome.status)))
    ELSE IF outcome.kind = "text" THEN Thrown(Err("Error", "SyntaxError"))
    ELSE LET validated == response_parse(processedData(cfg, Val(outcome.body))) IN
         IF validated = None THEN Thrown(Err("Error", "ZodError"))
         ELSE Returned(Val(validated))

(***************************************************************************)
(* The client configuration.  An option left out is None.                  *)
(***************************************************************************)
DefaultStrategy == "memory"
DefaultStaleTime == 0
DefaultAttempts == 3
DefaultDelay == 1000

OrElse(option, default) == IF option = None THEN default ELSE Val(option)

CacheConfig(strategy, staleTime) ==
    Some([strategy |-> Some(strategy), staleTime |-> Some(staleTime)])

CacheConfigs ==
    {None, CacheConfig("none", MaxStaleTime)}
    \cup {CacheConfig(st, t) : st \in {"memory", "local-storage"}, t \in 0..MaxStaleTime}

RetryConfig(attempts, delay) == Some([attempts |-> Some(attempts), delay |-> Some(delay)])

RetryConfigs ==
    {None} \cup {RetryConfig(a, d) : a \in 0..MaxAttempts, d \in 0..1}

Config(cache, retry, interceptors) ==
    [cache |-> cache, retry |-> retry, interceptors |-> interceptors]

\* new CacheManager(strategy ?? 'memory', { staleTime: staleTime ?? 0, ... },
\* async (key) => { await request(routeName, options) }): the callback is
\* the routeName and options it calls request with; the configurations of
\* the model leave refetchOnWindowFocus out
NewManager(cfg, input, keys) ==
    IF cfg.cache = None
    THEN CacheManager_new(DefaultStrategy, DefaultStaleTime, FALSE, Some(input),
                          keys)
    ELSE CacheManager_new(OrElse(Val(cfg.cache).strategy, DefaultStrategy),
                          OrElse(Val(cfg.cache).staleTime, DefaultStaleTime),
                          FALSE, Some(input), keys)

\* fullConfig.cache || cache
cachingByFlagOnly(cfg, cache) == cache

caching(cfg, cache) == cfg.cache # None \/ cache

\* cached && cached.status === 'fresh'
isAnyHit(cached) == cached # None

isFreshHitInverted(cached) == cached # None /\ Val(cached).status = "stale"

isFreshHit(cached) == cached # None /\ Val(cached).status = "fresh"

(***************************************************************************)
(* A call of request().  pc is "idle" before the call, "fetching" while    *)
(* fetch and response.json() are awaited, "waiting" while retryRequest     *)
(* awaits its timer, "done" / "failed" once the returned promise settled   *)
(* (with value / error).  While pc is "fetching", head is None as long as  *)
(* `await fetch(...)` is pending and the status of the response once fetch *)
(* fulfilled and `await response.json()` is pending.                       *)
(* cached is what cacheManager.get returned, retry                         *)
(* the retryRequest session.  fetches, requestInterceptions,               *)
(* responseInterceptions, sessions and writes count what the call did;     *)
(* finalRequest is the descriptor handed to the latest fetch; url          *)
(* is the URL of its last fetch, outcome what its last settled fetch came   *)
(* to; transportOnly says that every fetch so                              *)
(* far failed at transport level or with a non-success status; overlapped  *)
(* is the calls that were awaiting their first response when this one was  *)
(* made; abort is None until the caller aborts the signal it passed in the *)
(* options, then what the call was doing and how many fetches it had made. *)
(***************************************************************************)
NewCall ==
    [pc |-> "idle", input |-> Input("getUsers", None, None), cache |-> TRUE,
     cached |-> None, retry |-> RetryInit(0, 0), fetches |-> 0,
     requestInterceptions |-> 0, responseInterceptions |-> 0, sessions |-> 0,
     writes |-> 0, url |-> None, value |-> "", error |-> Err("none", ""),
     outcome |-> None, transportOnly |-> TRUE, overlapped |-> {},
     abort |-> None, finalRequest |-> None, head |-> None]

Done(call, value) == [call EXCEPT !.pc = "done", !.value = value]

Failed(call, error) == [call EXCEPT !.pc = "failed", !.error = error]

\* requestInit: the descriptor executeRequest builds from the route and
\* the options; stamp is what an interceptor may add to it
requestInit(input) == [method |-> routes[input.routeName].method, stamp |-> 0]

\* fullConfig.interceptors.request of the model: it stamps the descriptor
\* with the number of its invocation (a request id)
requestInterceptor(init, n) == [init EXCEPT !.stamp = n]

\* fullConfig.interceptors?.request?.(requestInit) ?? requestInit
finalRequest(cfg, call) ==
    IF cfg.interceptors
    THEN requestInterceptor(requestInit(call.input), call.requestInterceptions + 1)
    ELSE requestInit(call.input)

\* executeRequest() with the descriptor of the call's first attempt kept
\* for the attempts that follow
executeRequest_startInterceptedOnce(cfg, call) ==
    [call EXCEPT !.pc = "fetching",
                 !.url = Some(RequestUrl(call.input)),
                 !.requestInterceptions =
                     @ + (IF cfg.interceptors /\ call.fetches = 0 THEN 1 ELSE 0),
                 !.finalRequest = IF call.fetches = 0
                                  THEN Some(finalRequest(cfg, call)) ELSE @,
                 !.fetches = @ + 1]

\* executeRequest() up to `await fetch(url.toString(), finalRequest)`
executeRequest_start(cfg, call) ==
    [call EXCEPT !.pc = "fetching",
                 !.url = Some(RequestUrl(call.input)),
                 !.requestInterceptions = @ + (IF cfg.interceptors THEN 1 ELSE 0),
                 !.finalRequest = Some(finalRequest(cfg, call)),
                 !.fetches = @ + 1]

\* after retryRequest's loop test: executeRequest() is called, or lastError thrown
AfterLoop(cfg, call) ==
    IF call.retry.pc = "calling"
    THEN executeRequest_start(cfg, call)
    ELSE Failed(call, call.retry.lastError)

\* retryRequest called with one attempt and no delay where the policy
\* leaves them out
ExecuteOnceByDefault(cfg, call) ==
    IF cfg.retry # None
    THEN AfterLoop(cfg,
            [call EXCEPT !.sessions = @ + 1,
                         !.retry = RetryLoop(
                             RetryInit(OrElse(Val(cfg.retry).attempts, 1),
                                       OrElse(Val(cfg.retry).delay, 0)))])
    ELSE executeRequest_start(cfg, call)

\* `if (fullConfig.retry) return retryRequest(executeRequest, ...)`, else
\* `return executeRequest()`
Execute(cfg, call) ==
    IF cfg.retry # None
    THEN AfterLoop(cfg,
            [call EXCEPT !.sessions = @ + 1,
                         !.retry = RetryLoop(
                             RetryInit(OrElse(Val(cfg.retry).attempts, DefaultAttempts),
                                       OrElse(Val(cfg.retry).delay, DefaultDelay)))])
    ELSE executeRequest_start(cfg, call)

\* an attempt settled with result (of executeRequest) at Date.now() = t
Settle(cfg, call, result, t) ==
    IF cfg.retry # None
    THEN IF result.ok
         THEN LET s == RetryResolved(call.retry, result.value) IN
              IF s.pc = "resolved"
              THEN Done([call EXCEPT !.retry = s], s.value)
              ELSE [call EXCEPT !.retry = s, !.pc = s.pc]
         ELSE [call EXCEPT !.retry = RetryCaught(call.retry, result.error, t),
                           !.pc = "waiting"]
    ELSE IF result.ok THEN Done(call, result.value) ELSE Failed(call, result.error)

\* cacheManagers.get(cacheKey), or the manager request() makes for the key
request_manager(cfg, registry, input) ==
    IF registry[cacheKeyOf(input)] # None
    THEN Val(registry[cacheKeyOf(input)])
    ELSE NewManager(cfg, input, DOMAIN registry)

\* the registry after request(routeName, options, cache)
request_registry(cfg, registry, input, cache) ==
    IF caching(cfg, cache)
    THEN [registry EXCEPT ![cacheKeyOf(input)] = Some(request_manager(cfg, registry, input))]
    ELSE registry

\* request(routeName, options, cache) at Date.now() = t, up to its first
\* await: the call returns the fresh entry of its key or executes
request_call(cfg, registry, client, items, call, input, cache, t, overlapped) ==
    LET on == caching(cfg, cache)
        cached == IF on
                  THEN CacheManager_get(request_manager(cfg, registry, input), client,
                                        items, cacheKeyOf(input), t)
                  ELSE None
        made == [call EXCEPT !.input = input, !.cache = cache, !.cached = cached,
                             !.overlapped = overlapped]
    IN IF on /\ isFreshHit(cached)
       THEN Done(made, Val(cached).data)
       ELSE Execute(cfg, made)

(***************************************************************************)
(* Spec: a client made by createTea with some configuration, and callers   *)
(* that make two calls, concurrently or one after the other, while time    *)
(* passes and the fetches settle as the network decides.                   *)
(* SpecSolo: the same client and one call, under every retry policy.       *)
(***************************************************************************)
\* trace[key]: the call whose write-back under key was the last to execute,
\* and whether localStorage.setItem would have taken it
NoWrite == [writer |-> 0, stored |-> TRUE]

InitPipe ==
    /\ now = 0
    /\ localStorage = [k \in CacheKeys |-> None]
    /\ cacheManagers = [k \in CacheKeys |-> None]
    /\ trace = [k \in CacheKeys |-> NoWrite]
    /\ session = <<>>
    /\ mgr = <<>>

Init ==
    /\ InitPipe
    /\ invalidation = <<>>
    /\ calls = [c \in {1, 2} |-> NewCall]
    /\ \/ /\ isClient = TRUE
          /\ config \in {Config(c, None, TRUE) : c \in CacheConfigs}
                   \cup {Config(None, None, FALSE),
                         Config(None, RetryConfig(1, 0), TRUE),
                         Config(CacheConfig("memory", MaxStaleTime), RetryConfig(1, 0), TRUE)}
       \/ /\ isClient = FALSE
          /\ config = Config(CacheConfig("local-storage", MaxStaleTime), None, TRUE)

InitSolo ==
    /\ InitPipe
    /\ invalidation = <<>>
    /\ calls = [c \in {1} |-> NewCall]
    /\ isClient = TRUE
    /\ config \in {Config(c, r, i) :
                      c \in {None, CacheConfig("memory", 0)},
                      r \in RetryConfigs, i \in BOOLEAN}

PipeFrame == UNCHANGED <<session, isClient, mgr, config, invalidation>>

\* the calls awaiting the response of their first fetch, its head or its
\* body
AwaitingFirstResponse ==
    {d \in DOMAIN calls : calls[d].pc = "fetching" /\ calls[d].fetches = 1}

\* request(routeName, options, cache) is called: it runs up to its first await
RequestOf(c, input, cache) ==
    /\ calls[c].pc = "idle"
    /\ \A d \in DOMAIN calls : d < c => calls[d].pc # "idle"
    /\ cacheManagers' = request_registry(config, cacheManagers, input, cache)
    /\ calls' = [calls EXCEPT ![c] =
                    request_call(config, cacheManagers, isClient, localStorage,
                                 calls[c], input, cache, now, AwaitingFirstResponse)]
    /\ UNCHANGED <<now, localStorage, trace>>
    /\ PipeFrame

Request(c) == \E shape \in CallShapes : RequestOf(c, shape[1], shape[2])

\* executeRequest() from the rejection of its fetch, or from the settling
\* of response.json(), to its end, outcome being what the fetch came to in
\* all, at Date.now() = t: whether it writes back, the registry and
\* window.localStorage after it, and the call
executeRequest_end(cfg, registry, client, items, call, outcome, stored, t) ==
    LET key == cacheKeyOf(call.input)
        result == executeRequest_result(cfg, outcome)
        writes == /\ result.ok
                  /\ caching(cfg, call.cache)
                  /\ registry[key] # None
        \* cacheManager?.set(cacheKey, validatedData) is not guarded
        ended == IF /\ writes
                    /\ Cache_set_completion(Val(registry[key]), client,
                                            stored) = "throws"
                 THEN Thrown(Err("Error", "QuotaExceededError"))
                 ELSE result
        counted == [call EXCEPT
                      !.outcome = Some(outcome),
                      !.head = None,
                      !.transportOnly = @ /\ outcome.kind \in {"network", "http"},
                      !.responseInterceptions =
                          @ + (IF outcome.kind = "json" /\ cfg.interceptors
                               THEN 1 ELSE 0),
                      !.writes = @ + (IF writes THEN 1 ELSE 0)]
    IN [writes |-> writes,
        cacheManagers |->
            IF writes
            THEN [registry EXCEPT ![key] =
                    Some(CacheManager_set_manager(Val(@), key, result.value, t))]
            ELSE registry,
        localStorage |->
            IF writes
            THEN CacheManager_set_items(Val(registry[key]), client, items, key,
                                        result.value, t, stored)
            ELSE items,
        call |-> Settle(cfg, counted, ended, t)]

\* what the fetch of a call can come to once the signal of its RequestInit
\* is aborted: fetch rejects, or, when the head of the response had arrived
\* before the abort, the reading of the body rejects; with a status that is
\* not ok that rejection is caught (`.catch(() => null)`) and the HTTP
\* error of the status is thrown, with an ok status it is the call's error
AbortedOutcomes(call) ==
    IF call.head = None \/ call.head = Some(200)
    THEN {Outcome("network", 0, None)}
    ELSE {Outcome("http", Val(call.head), None)}

\* the fetch of call c fulfils with the head of a response: executeRequest
\* is resumed, reads response.ok and awaits response.json(); the fetch of
\* an aborted signal does not fulfil
FetchResponds(c) ==
    \E status \in Statuses :
        /\ calls[c].pc = "fetching"
        /\ calls[c].head = None
        /\ calls[c].abort = None
        /\ calls' = [calls EXCEPT ![c].head = Some(status)]
        /\ UNCHANGED <<now, localStorage, cacheManagers, trace>>
        /\ PipeFrame

\* the promise call c awaits settles, the fetch by rejecting or
\* response.json() either way, and executeRequest runs to its end
FetchSettles(c) ==
    \E outcome \in IF calls[c].abort = None THEN PendingOutcomes(calls[c].head)
                   ELSE AbortedOutcomes(calls[c]),
       stored \in BOOLEAN :
        /\ calls[c].pc = "fetching"
        /\ LET key == cacheKeyOf(calls[c].input)
               r == executeRequest_end(config, cacheManagers, isClient,
                                       localStorage, calls[c], outcome, stored, now)
           IN /\ stored \/ (r.writes /\ Persists(Val(cacheManagers[key])))
              /\ cacheManagers' = r.cacheManagers
              /\ localStorage' = r.localStorage
              /\ trace' = IF r.writes
                          THEN [trace EXCEPT ![key] = [writer |-> c, stored |-> stored]]
                          ELSE trace
              /\ calls' = [calls EXCEPT ![c] = r.call]
        /\ UNCHANGED now
        /\ PipeFrame

\* the retry timer of call c fires: attempt++, the loop test, the next attempt
TimerFires(c) ==
    /\ calls[c].pc = "waiting"
    /\ now >= calls[c].retry.due
    /\ calls' = [calls EXCEPT ![c] =
                    AfterLoop(config, [@ EXCEPT !.retry = RetryTimer(calls[c].retry)])]
    /\ UNCHANGED <<now, localStorage, cacheManagers, trace>>
    /\ PipeFrame

Tick ==
    /\ now < MaxTime
    /\ now' = now + 1
    /\ UNCHANGED <<localStorage, cacheManagers, calls, trace>>
    /\ PipeFrame

Next ==
    \/ \E c \in DOMAIN calls : Request(c)
    \/ \E c \in DOMAIN calls : FetchResponds(c)
    \/ \E c \in DOMAIN calls : FetchSettles(c)
    \/ \E c \in DOMAIN calls : TimerFires(c)
    \/ Tick

Spec == Init /\ [][Next]_vars

SoloTick ==
    /\ now < RetryMaxTime
    /\ now' = now + 1
    /\ UNCHANGED <<localStorage, cacheManagers, calls, trace>>
    /\ PipeFrame

NextSolo ==
    \/ \E c \in DOMAIN calls : Request(c)
    \/ \E c \in DOMAIN calls : FetchResponds(c)
    \/ \E c \in DOMAIN calls : FetchSettles(c)
    \/ \E c \in DOMAIN calls : TimerFires(c)
    \/ SoloTick

SpecSolo == InitSolo /\ [][NextSolo]_vars

\* the caller aborts the AbortSignal it passed in the options of call c
\* (requestOptions.signal, handed to fetch with finalRequest): nothing of
\* request() or retryRequest() listens to it, only the pending fetch does
Abort(c) ==
    /\ calls[c].pc \in {"fetching", "waiting"}
    /\ calls[c].abort = None
    /\ calls' = [calls EXCEPT ![c].abort =
                    Some([during |-> calls[c].pc, fetches |-> calls[c].fetches])]
    /\ UNCHANGED <<now, localStorage, cacheManagers, trace>>
    /\ PipeFrame

NextAbort ==
    \/ \E c \in DOMAIN calls : Request(c)
    \/ \E c \in DOMAIN calls : FetchResponds(c)
    \/ \E c \in DOMAIN calls : FetchSettles(c)
    \/ \E c \in DOMAIN calls : TimerFires(c)
    \/ \E c \in DOMAIN calls : Abort(c)
    \/ SoloTick

SpecAbort == InitSolo /\ [][NextAbort]_vars

(***************************************************************************)
(* SpecKey: a caching client and two calls whose options list the same     *)
(* properties in different orders or hold numbers that are not finite.     *)
(***************************************************************************)
InitKey ==
    /\ now = 0
    /\ localStorage = [k \in KeyCacheKeys |-> None]
    /\ cacheManagers = [k \in KeyCacheKeys |-> None]
    /\ trace = [k \in KeyCacheKeys |-> NoWrite]
    /\ session = <<>>
    /\ mgr = <<>>
    /\ invalidation = <<>>
    /\ calls = [c \in {1, 2} |-> NewCall]
    /\ isClient = TRUE
    /\ config = Config(CacheConfig("memory", MaxStaleTime), None, FALSE)

RequestKey(c) == \E input \in KeyInputs : RequestOf(c, input, TRUE)

NextKey ==
    \/ \E c \in DOMAIN calls : RequestKey(c)
    \/ \E c \in DOMAIN calls : FetchResponds(c)
    \/ \E c \in DOMAIN calls : FetchSettles(c)
    \/ Tick

SpecKey == InitKey /\ [][NextKey]_vars

(***************************************************************************)
(* SpecStorage: a client with the local-storage strategy and one call, in  *)
(* a browser or not, and a caller that also uses a LocalStorage object and *)
(* a local-storage CacheManager (mgr) of its own, over a window            *)
(* localStorage that may hold, under the prefix, items JSON.parse rejects. *)
(* session is the last operation of that caller: its name and key, the     *)
(* items before it, what it found or visited, how it completed, and        *)
(* whether setItem failed in it.                                           *)
(***************************************************************************)
StorageKeys ==
    {cacheKeyOf(Input("getUsers", None, None)),
     cacheKeyOf(Input("getUser", Some(<<<<"id", Str("42")>>>>), None))}

\* what window.localStorage holds under a key when the client is made
InitialItems == {None, Some(Corrupt), Some(JSON_stringify(Entry("v1", 0)))}

\* the entries the caller sets
StorageValues == {Entry("v2", 0), Entry("NaN", 1)}

Operation(op, key, before, found, visited, completion, failed) ==
    [op |-> op, key |-> key, before |-> before, found |-> found,
     visited |-> visited, completion |-> completion, failed |-> failed]

NoOperation == Operation("none", None, None, None, {}, "returns", FALSE)

InitStorage ==
    /\ now = 0
    /\ isClient \in BOOLEAN
    /\ localStorage \in {items \in [CacheKeys -> InitialItems] :
                            \A k \in CacheKeys \ StorageKeys : items[k] = None}
    /\ cacheManagers = [k \in CacheKeys |-> None]
    /\ trace = [k \in CacheKeys |-> NoWrite]
    /\ config = Config(CacheConfig("local-storage", MaxStaleTime), None, TRUE)
    /\ calls = [c \in {1} |-> NewCall]
    /\ mgr = CacheManager_new("local-storage", MaxStaleTime, FALSE, None, CacheKeys)
    /\ session = NoOperation
    /\ invalidation = <<>>

StorageFrame ==
    UNCHANGED <<now, isClient, cacheManagers, trace, config, calls, mgr, invalidation>>

StorageGet ==
    \E key \in StorageKeys :
        /\ session' = Operation("get", Some(key), Some(localStorage),
                                LocalStorage_get(isClient, localStorage, key), {},
                                LocalStorage_get_completion(isClient, localStorage, key),
                                FALSE)
        /\ UNCHANGED localStorage
        /\ StorageFrame

StorageSet ==
    \E key \in StorageKeys, value \in StorageValues, stored \in BOOLEAN :
        /\ stored \/ isClient
        /\ localStorage' = LocalStorage_set(isClient, localStorage, key, value, stored)
        /\ session' = Operation("set", Some(key), Some(localStorage), None, {},
                                LocalStorage_set_completion(isClient, stored), ~stored)
        /\ StorageFrame

StorageDelete ==
    \E key \in StorageKeys :
        /\ localStorage' = LocalStorage_delete(isClient, localStorage, key)
        /\ session' = Operation("delete", Some(key), Some(localStorage), None, {},
                                "returns", FALSE)
        /\ StorageFrame

StorageClear ==
    /\ localStorage' = LocalStorage_clear(isClient, localStorage)
    /\ session' = Operation("clear", None, Some(localStorage), None, {}, "returns", FALSE)
    /\ StorageFrame

StorageForEach ==
    /\ session' = Operation("forEach", None, Some(localStorage), None,
                            LocalStorage_forEach(isClient, localStorage),
                            LocalStorage_forEach_completion(isClient, localStorage),
                            FALSE)
    /\ UNCHANGED localStorage
    /\ StorageFrame

\* mgr.get(key): CacheManager.get over the LocalStorage
ManagerGet ==
    \E key \in StorageKeys :
        /\ session' = Operation("manager.get", Some(key), Some(localStorage),
                                CacheManager_get(mgr, isClient, localStorage, key, now),
                                {},
                                Cache_get_completion(mgr, isClient, localStorage, key),
                                FALSE)
        /\ UNCHANGED localStorage
        /\ StorageFrame

NextStorage ==
    \/ \E c \in DOMAIN calls : Request(c)
    \/ \E c \in DOMAIN calls : FetchResponds(c)
    \/ \E c \in DOMAIN calls : FetchSettles(c)
    \/ Tick
    \/ StorageGet
    \/ StorageSet
    \/ StorageDelete
    \/ StorageClear
    \/ StorageForEach
    \/ ManagerGet

SpecStorage == InitStorage /\ [][NextStorage]_vars

(***************************************************************************)
(* SpecTea: the tuple-returning client, createTea(baseUrl, schema) of      *)
(* src/tea.ts, and callers that make two calls.  config is the baseUrl the *)
(* client was made with; a call is its position (pc: "idle", "fetching",   *)
(* "resolved", "rejected"), its key and options, the URL it fetched, the   *)
(* tuple it resolved to and the error it rejected with.                    *)
(***************************************************************************)
\* the schema: an endpoint key is `${method} ${path}`
apiSchema ==
    [posts |-> [method |-> "GET", path |-> <<"posts">>],
     post  |-> [method |-> "GET", path |-> <<"posts", ":id">>]]

\* params[key] of an object given by its properties
Lookup(entries, name) ==
    IF \E i \in 1..Len(entries) : entries[i][1] = name
    THEN entries[CHOOSE i \in 1..Len(entries) :
                    /\ entries[i][1] = name
                    /\ \A j \in 1..Len(entries) : entries[j][1] = name => j <= i][2]
    ELSE Undefined

\* the name in a placeholder segment
PlaceholderName(segment) == IF segment = ":id" THEN "id" ELSE segment

\* parseRoute(route, params) of src/tea.ts: every `:name` of the route is
\* replaced by encodeURIComponent(String(params[name]))
Tea_parseRoute(route, params) ==
    [i \in 1..Len(route) |->
        IF route[i] \in Placeholders
        THEN encodeURIComponent(String(Lookup(params, PlaceholderName(route[i]))))
        ELSE route[i]]

\* the base URLs given to createTea; new URL(path, base) throws a
\* TypeError when base is not an absolute URL
BaseUrls == {"https://api.example.com", "api.example.com"}

URL_throws(base) == base # "https://api.example.com"

\* url.searchParams after the forEach over Object.entries(query)
RECURSIVE Tea_appendQuery(_, _)
Tea_appendQuery(searchParams, entries) ==
    IF entries = <<>> THEN searchParams
    ELSE Tea_appendQuery(Append(searchParams, <<entries[1][1], String(entries[1][2])>>),
                         Tail(entries))

\* the options of the calls
TeaInputs ==
    {[key |-> "posts", params |-> None, query |-> None],
     [key |-> "posts", params |-> None, query |-> Some(<<<<"page", Num("1")>>>>)],
     [key |-> "post", params |-> Some(<<<<"id", Str("1")>>>>), query |-> None]}

\* the ApiResult tuple [error, data]; null is None
ApiResult(error, data) == [error |-> error, data |-> data]

NewTeaCall ==
    [pc |-> "idle", input |-> [key |-> "posts", params |-> None, query |-> None],
     url |-> None, result |-> None, rejection |-> None, head |-> None]

\* the call up to `await fetch(url.toString(), mergedOptions)`: new URL is
\* evaluated before the try block is entered
Tea_call(base, call, input) ==
    IF URL_throws(base)
    THEN [call EXCEPT !.pc = "rejected", !.input = input,
                      !.rejection = Some(Err("TypeError", "Invalid URL"))]
    ELSE [call EXCEPT
            !.pc = "fetching", !.input = input,
            !.url = Some([path |-> Tea_parseRoute(
                                      apiSchema[input.key].path,
                                      IF input.params = None THEN <<>>
                                      ELSE Val(input.params)),
                          search |-> IF input.query = None THEN <<>>
                                     ELSE Tea_appendQuery(<<>>, Val(input.query))])]

\* the try block after the fetch settled, and its catch
Tea_result(outcome) ==
    IF outcome.kind = "network"
    THEN ApiResult(Some(Err("TypeError", "fetch failed")), None)
    ELSE IF outcome.kind = "http"
    THEN ApiResult(Some(Err("Error",
                            [status |-> outcome.status,
                             message |-> IF IsSome(outcome.body) THEN Val(outcome.body)
                                         ELSE "Unable to read error response body"])),
                   None)
    ELSE IF outcome.kind = "text"
    THEN ApiResult(Some(Err("SyntaxError", "")), None)
    ELSE LET result == response_parse(Val(outcome.body)) IN
         IF result = None
         THEN ApiResult(Some(Err("ZodError", "")), None)
         ELSE ApiResult(None, result)

InitTea ==
    /\ now = 0
    /\ config \in BaseUrls
    /\ calls = [c \in {1, 2} |-> NewTeaCall]
    /\ isClient = TRUE
    /\ localStorage = <<>>
    /\ cacheManagers = <<>>
    /\ trace = <<>>
    /\ mgr = <<>>
    /\ session = <<>>
    /\ invalidation = <<>>

TeaFrame ==
    UNCHANGED <<now, config, isClient, localStorage, cacheManagers, trace, mgr,
                session, invalidation>>

\* tea(key, options) is called: it runs up to its first await
TeaCall(c) ==
    \E input \in TeaInputs :
        /\ calls[c].pc = "idle"
        /\ calls' = [calls EXCEPT ![c] = Tea_call(config, calls[c], input)]
        /\ TeaFrame

\* the fetch of call c fulfils with the head of a response: the call is
\* resumed, reads response.ok and awaits response.json()
TeaFetchResponds(c) ==
    \E status \in Statuses :
        /\ calls[c].pc = "fetching"
        /\ calls[c].head = None
        /\ calls' = [calls EXCEPT ![c].head = Some(status)]
        /\ TeaFrame

\* the promise call c awaits settles, the fetch by rejecting or
\* response.json() either way, and the call runs to its return
TeaFetchSettles(c) ==
    \E outcome \in PendingOutcomes(calls[c].head) :
        /\ calls[c].pc = "fetching"
        /\ calls' = [calls EXCEPT ![c].pc = "resolved",
                                  ![c].head = None,
                                  ![c].result = Some(Tea_result(outcome))]
        /\ TeaFrame

NextTea ==
    \/ \E c \in DOMAIN calls : TeaCall(c)
    \/ \E c \in DOMAIN calls : TeaFetchResponds(c)
    \/ \E c \in DOMAIN calls : TeaFetchSettles(c)

SpecTea == InitTea /\ [][NextTea]_vars

(***************************************************************************)
(* Claims about the request pipeline, checked under Spec.                  *)
(***************************************************************************)

\* C1: a call for which caching is in effect (a cache configuration, or the
\* cache argument true) and whose lookup found an entry that reads fresh has
\* returned that entry's data, with no fetch, no request or response
\* interceptor invocation and no retry session.
C1_FreshHitServedFromCache ==
    \A c \in DOMAIN calls :
        (/\ calls[c].pc # "idle"
         /\ caching(config, calls[c].cache)
         /\ calls[c].cached # None
         /\ Val(calls[c].cached).status = "fresh")
        => /\ calls[c].pc = "done"
           /\ calls[c].value = Val(calls[c].cached).data
           /\ calls[c].fetches = 0
           /\ calls[c].url = None
           /\ calls[c].requestInterceptions = 0
           /\ calls[c].responseInterceptions = 0
           /\ calls[c].sessions = 0

\* a fresh hit under a retry policy and interceptors, after an earlier call
\* of the same key fetched once
C1_Witness ==
    /\ config.retry # None
    /\ config.interceptors
    /\ calls[1].pc = "done"
    /\ calls[1].fetches = 1
    /\ calls[2].pc = "done"
    /\ calls[2].cached # None
    /\ Val(calls[2].cached).status = "fresh"
    /\ calls[2].fetches = 0
    /\ calls[2].value = calls[1].value
    /\ now > 0

\* calls c and d have the same cache key, c was awaiting its first response
\* when d was made, and both completed with a response
Concurrent(c, d) ==
    /\ c # d
    /\ cacheKeyOf(calls[c].input) = cacheKeyOf(calls[d].input)
    /\ c \in calls[d].overlapped
    /\ caching(config, calls[c].cache)
    /\ caching(config, calls[d].cache)
    /\ calls[c].pc = "done"
    /\ calls[d].pc = "done"

\* the call made its own fetch, completed with the validated value of its
\* own response and executed its write-back
CompletedOnItsOwn(c) ==
    /\ calls[c].fetches >= 1
    /\ calls[c].outcome # None
    /\ Val(calls[c].outcome).kind = "json"
    /\ Some(calls[c].value) =
          response_parse(processedData(config, Val(Val(calls[c].outcome).body)))
    /\ calls[c].writes = 1

\* get(key) of the manager of key returns the value of the call whose
\* write-back under key executed last
EntryIsLastWriteBack(key) ==
    /\ cacheManagers[key] # None
    /\ trace[key].writer \in DOMAIN calls
    /\ LET state == CacheManager_get(Val(cacheManagers[key]), isClient,
                                     localStorage, key, now)
       IN /\ state # None
          /\ Val(state).data = calls[trace[key].writer].value

\* C2 as stated: two concurrent calls of one key each fetch, complete with
\* their own validated response and write back, and the entry left is the
\* value of the write-back that executed last.
C2_LastWriteBackWinsAnyStorage ==
    \A c, d \in DOMAIN calls :
        Concurrent(c, d) =>
            /\ CompletedOnItsOwn(c)
            /\ CompletedOnItsOwn(d)
            /\ EntryIsLastWriteBack(cacheKeyOf(calls[c].input))

\* C2, amended: two concurrent calls of one key are not deduplicated: each
\* fetches, completes with its own validated response and executes its
\* write-back; the entry left is the value of the write-back that executed
\* last when the storage is the memory one (strategy memory or none), or the
\* persistent one with localStorage available, that last write not failing
\* and its value one JSON represents.
C2_LastWriteBackWins ==
    \A c, d \in DOMAIN calls :
        Concurrent(c, d) =>
            LET key == cacheKeyOf(calls[c].input) IN
            /\ CompletedOnItsOwn(c)
            /\ CompletedOnItsOwn(d)
            /\ cacheManagers[key] # None
            /\ trace[key].writer \in {c, d}
            /\ (\/ Val(cacheManagers[key]).strategy # "local-storage"
                \/ /\ isClient
                   /\ trace[key].stored
                   /\ JsonData(calls[trace[key].writer].value) =
                         calls[trace[key].writer].value)
               => EntryIsLastWriteBack(key)

\* both calls were in flight together, the first one's response came last
\* and its value, not the other's, is the entry left
C2_Witness ==
    /\ Concurrent(1, 2)
    /\ calls[1].value # calls[2].value
    /\ trace[cacheKeyOf(calls[1].input)].writer = 1
    /\ EntryIsLastWriteBack(cacheKeyOf(calls[1].input))
    /\ Val(cacheManagers[cacheKeyOf(calls[1].input)]).strategy = "memory"

\* a step in which the fetched response of call c passed validation and the
\* call returned, a cache configuration being present or the call's flag true
ReturnsValidated(c) ==
    /\ calls[c].pc = "fetching"
    /\ calls'[c].pc = "done"
    /\ (config.cache # None \/ calls[c].cache)

\* after the step the entry of the call's key is the call's value, written
\* at the current time
WrittenBack(c) ==
    LET key == cacheKeyOf(calls[c].input) IN
    /\ calls'[c].writes = calls[c].writes + 1
    /\ cacheManagers'[key] # None
    /\ CacheManager_get(Val(cacheManagers'[key]), isClient, localStorage', key, now')
          = Some([data |-> calls'[c].value, timestamp |-> now', status |-> "fresh"])

\* a step in which call d is made, identical to the completed call c (same
\* route, options and flag) whose write-back was the last under their key,
\* while an entry is there with now - timestamp <= staleTime
IdenticalCallWithinStaleTime(c, d) ==
    LET key == cacheKeyOf(calls[c].input) IN
    /\ c # d
    /\ calls[c].pc = "done"
    /\ calls[c].fetches >= 1
    /\ (config.cache # None \/ calls[c].cache)
    /\ calls[d].pc = "idle"
    /\ calls'[d].pc # "idle"
    /\ calls'[d].input = calls[c].input
    /\ calls'[d].cache = calls[c].cache
    /\ trace[key].writer = c
    /\ cacheManagers[key] # None
    /\ LET entry == Cache_get(Val(cacheManagers[key]), isClient, localStorage, key)
       IN /\ entry # None
          /\ now - Val(entry).timestamp <= Val(cacheManagers[key]).staleTime

\* call d returned the value of call c without a fetch
ServedTheValueOf(c, d) ==
    /\ calls'[d].pc = "done"
    /\ calls'[d].value = calls[c].value
    /\ calls'[d].fetches = 0

\* C13 as stated: whenever a fetched response passes validation and a cache
\* configuration is present or the flag is true (also flag false with a
\* configuration), the value is written under the call's key with the
\* current time before the call returns, and an identical call made while
\* now - timestamp <= staleTime returns that value without a fetch.
C13_WriteBackThenHitAnyStorage ==
    [][/\ \A c \in DOMAIN calls : ReturnsValidated(c) => WrittenBack(c)
       /\ \A c, d \in DOMAIN calls :
              IdenticalCallWithinStaleTime(c, d) => ServedTheValueOf(c, d)]_vars

\* a write-back that the storage takes and gives back as it was: the memory
\* storage, or the persistent one with localStorage available, setItem not
\* failing and a value JSON represents (the item is JSON.stringify(entry))
StorageTakes(c) ==
    LET key == cacheKeyOf(calls[c].input) IN
    \/ cacheManagers[key] = None
    \/ Val(cacheManagers[key]).strategy # "local-storage"
    \/ /\ isClient
       /\ trace'[key].stored
       /\ JsonData(calls'[c].value) = calls'[c].value

\* the last write-back under the key of the completed call c was its own,
\* and the storage took it and gives it back as it was
StorageTook(c) ==
    LET key == cacheKeyOf(calls[c].input) IN
    /\ trace[key].writer = c
    /\ \/ cacheManagers[key] = None
       \/ Val(cacheManagers[key]).strategy # "local-storage"
       \/ /\ isClient
          /\ trace[key].stored
          /\ JsonData(calls[c].value) = calls[c].value

\* C13, amended: the write-back is executed in every such case; the value
\* is found in the cache, with the current time, when the storage is the
\* memory one (strategy memory or none) or the persistent one with
\* localStorage available, the write not failing and the value one JSON
\* represents; and an identical call made while the entry so written is
\* there with now - timestamp <= staleTime returns that value without a
\* fetch.
C13_WriteBackThenHit ==
    [][/\ \A c \in DOMAIN calls :
              ReturnsValidated(c) =>
                  /\ calls'[c].writes = calls[c].writes + 1
                  /\ trace'[cacheKeyOf(calls[c].input)].writer = c
                  /\ StorageTakes(c) => WrittenBack(c)
       /\ \A c, d \in DOMAIN calls :
              (IdenticalCallWithinStaleTime(c, d) /\ StorageTook(c))
              => ServedTheValueOf(c, d)]_vars

\* a cache configuration and the flag false: the first call fetched and
\* wrote back at time 1, the identical second call was served its value
C13_Witness ==
    /\ config.cache # None
    /\ ~calls[1].cache
    /\ ~calls[2].cache
    /\ calls[1].pc = "done"
    /\ calls[1].fetches = 1
    /\ calls[1].writes = 1
    /\ calls[2].pc = "done"
    /\ calls[2].input = calls[1].input
    /\ calls[2].fetches = 0
    /\ calls[2].value = calls[1].value
    /\ calls[2].cached # None
    /\ Val(calls[2].cached).timestamp = 1

\* C14: a call made with the cache flag false never returns a cached
\* payload and always performs a fetch, whatever the cache configuration
\* and whatever fresh entry its key has.
C14_FlagFalseDisablesCaching ==
    \A c \in DOMAIN calls :
        (calls[c].pc # "idle" /\ ~calls[c].cache)
        => /\ calls[c].fetches >= 1
           /\ calls[c].pc = "done" => calls[c].outcome # None

(***************************************************************************)
(* Claims about one call under a retry policy, checked under SpecSolo.     *)
(***************************************************************************)

\* C6: under a retry policy, a call one of whose fetched bodies failed the
\* response schema makes exactly one fetch, and the failure it surfaces is
\* the validation failure.
C6_ValidationFailureNotRetried ==
    \A c \in DOMAIN calls :
        (/\ config.retry # None
         /\ calls[c].outcome # None
         /\ Val(calls[c].outcome).kind = "json"
         /\ response_parse(processedData(config, Val(Val(calls[c].outcome).body))) = None)
        => /\ calls[c].fetches = 1
           /\ calls[c].pc \in {"waiting", "failed"}
           /\ calls[c].pc = "failed" => calls[c].error = Err("Error", "ZodError")

\* C7: under a retry policy, a call whose response had a success status and
\* a body that is no JSON makes exactly one fetch and fails at once: no
\* retry delay is started.
C7_ParseFailureNotRetried ==
    \A c \in DOMAIN calls :
        (/\ config.retry # None
         /\ calls[c].outcome # None
         /\ Val(calls[c].outcome).kind = "text")
        => /\ calls[c].fetches = 1
           /\ calls[c].retry.waits = <<>>
           /\ calls[c].pc = "failed"
           /\ calls[c].error = Err("Error", "SyntaxError")

\* the retry policy's number of attempts
Attempts == OrElse(Val(config.retry).attempts, DefaultAttempts)

\* C8: under a retry policy of n attempts, a call whose every fetch failed at
\* transport level or with a non-success status never makes more than n
\* fetches and has failed only once it made n of them, with the failure of
\* the last; transport failures and status codes are not told apart.
C8_TransportFailuresExhaustAttempts ==
    \A c \in DOMAIN calls :
        (/\ config.retry # None
         /\ calls[c].pc # "idle"
         /\ ~(caching(config, calls[c].cache) /\ isFreshHit(calls[c].cached))
         /\ calls[c].transportOnly)
        => /\ calls[c].fetches <= Attempts
           /\ calls[c].sessions = 1
           /\ calls[c].pc # "done"
           /\ calls[c].pc = "failed" =>
                 /\ calls[c].fetches = Attempts
                 /\ Attempts > 0 =>
                       /\ calls[c].outcome # None
                       /\ calls[c].error =
                             executeRequest_result(config, Val(calls[c].outcome)).error

\* three attempts, three failed fetches, the last one a 404
C8_Witness ==
    /\ config.retry = RetryConfig(3, 1)
    /\ calls[1].pc = "failed"
    /\ calls[1].transportOnly
    /\ calls[1].fetches = 3
    /\ Val(calls[1].outcome) = Outcome("http", 404, Some("not found"))
    /\ calls[1].error = Err("Error", "not found")

\* the path of the call's route has a placeholder params gives no value for
MissingParameter(input) ==
    \E p \in Placeholders :
        /\ \E i \in 1..Len(routes[input.routeName].path) :
              routes[input.routeName].path[i] = p
        /\ \/ input.params = None
           \/ \A i \in 1..Len(Val(input.params)) : ":" \o Val(input.params)[i][1] # p

\* C9: a call of a route with a placeholder that params gives no value for
\* fails before any fetch: it makes no fetch, with or without a retry policy.
C9_MissingParameterFailsBeforeFetch ==
    \A c \in DOMAIN calls :
        (calls[c].pc # "idle" /\ MissingParameter(calls[c].input))
        => /\ calls[c].fetches = 0
           /\ calls[c].pc = "failed"

(***************************************************************************)
(* invalidateQueries(queryKey) of core, over the registry of the client    *)
(* createTea made last (globalCacheManager).                               *)
(*                                                                         *)
(* The text of a cache key, the key the registry is a Map of: the tokens   *)
(* of JSON.stringify({ routeName, params, query }), a property that is     *)
(* undefined left out.  A route name is the text of one token.             *)
(***************************************************************************)
RECURSIVE EntriesText(_)
EntriesText(entries) ==
    IF entries = <<>> THEN <<>>
    ELSE <<entries[1][1], entries[1][2].t, entries[1][2].s>>
         \o EntriesText(Tail(entries))

ObjectText(name, object) ==
    IF object = None THEN <<>>
    ELSE <<name, "{">> \o EntriesText(Val(object)) \o <<"}">>

KeyText(key) ==
    <<"{", "routeName", key.routeName>>
    \o ObjectText("params", key.params) \o ObjectText("query", key.query)
    \o <<"}">>

\* globalCacheManager.get(text): the keys of the managers found (one at most)
registry_get(registry, text) ==
    {k \in DOMAIN registry : registry[k] # None /\ KeyText(k) = text}

\* ValidRouteKey: a route name or 'all'
QueryKeys == {"all"} \cup DOMAIN routes

\* the call of request() the refetch callbacks make, one at a time
Refetcher == 3

(***************************************************************************)
(* The invalidateQueries call.  Every await gives the turn back, also when *)
(* the awaited promise is already fulfilled, so the call is followed from  *)
(* one await to the next: pc is "idle" before the call; "awaiting" at      *)
(* `await this.refetchCallback(key)`, the callback's request having run up *)
(* to its own first await (it returned the fresh entry, or its fetch is in *)
(* flight); "clearing" at `await manager.invalidateAndRefetch()` once the  *)
(* second loop ended, clear() not yet called; "running" at                 *)
(* `await manager.clear()` of the 'all' loop, the manager cleared;         *)
(* "resolved" / "rejected" once the promise settled.  manager is the key   *)
(* of the manager whose invalidateAndRefetch is running or has just ended, *)
(* remaining the number of keys of its snapshot the callback is still due  *)
(* for; visited is the keys of the managers that went through              *)
(* invalidateAndRefetch and clear; entries counts the keys of the          *)
(* snapshots so far, invoked the calls of a refetch callback, fetched      *)
(* those of them that made a fetch, error what the call rejected with.     *)
(* The loop over the registry follows the Map's insertion order, which the *)
(* model does not keep: it takes the managers not visited yet in any       *)
(* order.                                                                  *)
(***************************************************************************)
NoInvalidation ==
    [pc |-> "idle", queryKey |-> "", manager |-> None, remaining |-> 0,
     visited |-> {}, entries |-> 0, invoked |-> 0, fetched |-> 0,
     error |-> None]

\* the call of the callbacks when none is in flight
NoRefetcher == [NewCall EXCEPT !.pc = "unused"]

\* clear() followed by the removal of the manager from the registry
invalidateQueries_clearedAndDropped(registry, items, cs, inv) ==
    [cacheManagers |-> [registry EXCEPT ![Val(inv.manager)] = None],
     calls |-> cs,
     localStorage |-> items,
     invalidation |-> [inv EXCEPT !.pc = IF inv.queryKey = "all"
                                         THEN "running" ELSE "resolved",
                                  !.visited = @ \cup {Val(inv.manager)},
                                  !.manager = None]]

\* `await manager.invalidateAndRefetch(); await manager.clear();` resumed
\* after invalidateAndRefetch() resolved: the manager is cleared (a new
\* storage object of its strategy, the items of window.localStorage stay),
\* and `await manager.clear()` gives the turn back ('all': the loop over
\* the registry is due to go on) or is the last statement (the call
\* resolves)
invalidateQueries_cleared(registry, items, cs, inv) ==
    [cacheManagers |-> [registry EXCEPT ![Val(inv.manager)] =
                           Some(CacheManager_clear(Val(@)))],
     calls |-> cs,
     localStorage |-> items,
     invalidation |-> [inv EXCEPT !.pc = IF inv.queryKey = "all"
                                         THEN "running" ELSE "resolved",
                                  !.visited = @ \cup {Val(inv.manager)},
                                  !.manager = None]]

\* the second loop with a callback that is called and not awaited
invalidateAndRefetch_refetchNotAwaited(cfg, registry, client, items, cs, inv, t, overlapped) ==
    LET m == Val(registry[Val(inv.manager)]) IN
    IF m.refetchCallback = None \/ inv.remaining = 0
    THEN [cacheManagers |-> registry,
          calls |-> [cs EXCEPT ![Refetcher] = NoRefetcher],
          localStorage |-> items,
          invalidation |-> [inv EXCEPT !.pc = "clearing", !.remaining = 0]]
    ELSE [cacheManagers |-> registry,
          calls |-> [cs EXCEPT ![Refetcher] =
                        request_call(cfg, registry, client, items, NewCall,
                                     Val(m.refetchCallback), TRUE, t, overlapped)],
          localStorage |-> items,
          invalidation |-> [inv EXCEPT !.pc = "clearing",
                                       !.invoked = @ + 1,
                                       !.remaining = @ - 1]]

\* invalidateAndRefetch, second loop, from the next key of the snapshot on,
\* at Date.now() = t, up to the next await: with no callback or no key left
\* the loop ends and invalidateAndRefetch resolves, which its caller awaits;
\* else the callback is called, whatever the key, with request(routeName,
\* options) of the call that made the manager, which runs up to its first
\* await (it returns the fresh entry or starts a fetch), and is awaited
invalidateAndRefetch_refetch(cfg, registry, client, items, cs, inv, t, overlapped) ==
    LET m == Val(registry[Val(inv.manager)]) IN
    IF m.refetchCallback = None \/ inv.remaining = 0
    THEN [cacheManagers |-> registry,
          calls |-> [cs EXCEPT ![Refetcher] = NoRefetcher],
          localStorage |-> items,
          invalidation |-> [inv EXCEPT !.pc = "clearing", !.remaining = 0]]
    ELSE LET call == request_call(cfg, registry, client, items, NewCall,
                                  Val(m.refetchCallback), TRUE, t, overlapped)
         IN [cacheManagers |-> request_registry(cfg, registry,
                                                Val(m.refetchCallback), TRUE),
             calls |-> [cs EXCEPT ![Refetcher] = call],
             localStorage |-> items,
             invalidation |-> [inv EXCEPT
                                  !.pc = "awaiting",
                                  !.invoked = @ + 1,
                                  !.remaining = @ - 1,
                                  !.fetched = @ + (IF call.pc = "fetching"
                                                   THEN 1 ELSE 0)]]

\* manager.invalidateAndRefetch() of the manager of key, up to its first
\* await or its end: the snapshot (the entries of keys), the first loop
\* (whose result does not depend on the order of the keys) and the second
\* loop up to the await of the first callback
invalidateAndRefetch_start(cfg, registry, client, items, cs, inv, key, keys, failing, t, overlapped) ==
    LET after == invalidateAndRefetch_refresh(
                     Val(registry[key]), client, items,
                     CHOOSE order \in Orders(keys) : TRUE, t, failing)
    IN invalidateAndRefetch_refetch(
           cfg, [registry EXCEPT ![key] = Some(after.manager)], client,
           after.items, cs,
           [inv EXCEPT !.manager = Some(key),
                       !.remaining = Cardinality(keys),
                       !.entries = @ + Cardinality(keys)],
           t, overlapped)

\* the refetch callback that is awaited settled, with a rejection that is
\* passed on only after clear() ran on the manager
invalidateAndRefetch_settledAndCleared(cfg, registry, client, items, cs, inv, t, overlapped) ==
    IF cs[Refetcher].pc = "failed"
    THEN LET r == invalidateQueries_cleared(
                      registry, items, [cs EXCEPT ![Refetcher] = NoRefetcher],
                      [inv EXCEPT !.error = Some(cs[Refetcher].error)])
         IN [r EXCEPT !.invalidation.pc = "rejected"]
    ELSE invalidateAndRefetch_refetch(cfg, registry, client, items, cs, inv, t,
                                      overlapped)

\* `await this.refetchCallback(key)` is resumed, the request of the callback
\* having settled: a rejection is thrown out of the loop, which rejects
\* invalidateAndRefetch and, at its await, invalidateQueries, so that
\* clear() is not called; else the second loop goes on
invalidateAndRefetch_settled(cfg, registry, client, items, cs, inv, t, overlapped) ==
    IF cs[Refetcher].pc = "failed"
    THEN [cacheManagers |-> registry,
          calls |-> [cs EXCEPT ![Refetcher] = NoRefetcher],
          localStorage |-> items,
          invalidation |-> [inv EXCEPT !.pc = "rejected",
                                       !.error = Some(cs[Refetcher].error)]]
    ELSE invalidateAndRefetch_refetch(cfg, registry, client, items, cs, inv, t,
                                      overlapped)

\* the managers invalidateQueries has yet to call invalidateAndRefetch on:
\* those of the registry the loop has not reached ('all'), or the one
\* `globalCacheManager.get(queryKey)` finds
invalidateQueries_targets(registry, inv) ==
    IF inv.queryKey = "all"
    THEN {k \in DOMAIN registry : registry[k] # None /\ k \notin inv.visited}
    ELSE registry_get(registry, <<inv.queryKey>>)

\* what can come next: the manager of key is taken, failing being the keys
\* of its snapshot whose write in the first loop the storage refuses
\* (localStorage.setItem throws, for each entry on its own; a memory storage
\* refuses none); with no manager left none is taken
invalidateQueries_takes(registry, client, items, inv, key, failing) ==
    IF invalidateQueries_targets(registry, inv) = {}
    THEN key = (CHOOSE k \in DOMAIN registry : TRUE) /\ failing = {}
    ELSE /\ key \in invalidateQueries_targets(registry, inv)
         /\ failing \subseteq Cache_keys(Val(registry[key]), client, items)
         /\ failing # {} => client /\ Val(registry[key]).strategy = "local-storage"

\* one round of `for (const [, manager] of globalCacheManager.entries())`,
\* or `const manager = globalCacheManager.get(queryKey); if (manager)`:
\* with no manager the call resolves, else invalidateAndRefetch() of the
\* manager of key is called and runs up to its first await; failing: the
\* keys whose write in its first loop the storage refuses
invalidateQueries_loop(cfg, registry, client, items, cs, inv, key, failing, t, overlapped) ==
    IF invalidateQueries_targets(registry, inv) = {}
    THEN [cacheManagers |-> registry, calls |-> cs, localStorage |-> items,
          invalidation |-> [inv EXCEPT !.pc = "resolved"]]
    ELSE invalidateAndRefetch_start(
             cfg, registry, client, items, cs, inv, key,
             Cache_keys(Val(registry[key]), client, items), failing, t, overlapped)

\* invalidateQueries from where it stands to its next await or its end: the
\* call itself (pc "idle", queryKey set), or the resumption from the await
\* it is suspended at
invalidateQueries_resumed(cfg, registry, client, items, cs, inv, key, failing, t, overlapped) ==
    CASE inv.pc = "awaiting" ->
            invalidateAndRefetch_settled(cfg, registry, client, items, cs, inv, t,
                                         overlapped)
      [] inv.pc = "clearing" -> invalidateQueries_cleared(registry, items, cs, inv)
      [] inv.pc \in {"idle", "running"} ->
            invalidateQueries_loop(cfg, registry, client, items, cs, inv, key,
                                   failing, t, overlapped)

(***************************************************************************)
(* SpecInvalidate: a client made by createTea with a cache configuration,  *)
(* callers that make their calls (two with the memory storage, one with   *)
(* the persistent one) and call invalidateQueries once, at any moment,     *)
(* while time passes and the fetches settle as the network decides.  While *)
(* invalidateAndRefetch writes its entries back, the persistent storage    *)
(* takes or refuses each write on its own.                                 *)
(***************************************************************************)
InitInvalidate ==
    /\ InitPipe
    /\ invalidation = NoInvalidation
    /\ isClient = TRUE
    /\ \/ /\ config = Config(CacheConfig("memory", MaxStaleTime), None, TRUE)
          /\ calls = [c \in {1, 2, Refetcher} |->
                         IF c = Refetcher THEN NoRefetcher ELSE NewCall]
       \/ /\ config = Config(CacheConfig("local-storage", 0), None, TRUE)
          /\ calls = [c \in {1, Refetcher} |->
                         IF c = Refetcher THEN NoRefetcher ELSE NewCall]

InvalidateFrame == UNCHANGED <<now, session, isClient, mgr, config, trace>>

\* invalidateQueries runs from where it stands to its next await or its end
InvalidateRuns(inv) ==
    /\ \E key \in DOMAIN cacheManagers, failing \in SUBSET DOMAIN cacheManagers :
          /\ inv.pc \in {"idle", "running"}
             => invalidateQueries_takes(cacheManagers, isClient, localStorage, inv,
                                        key, failing)
          /\ inv.pc \in {"awaiting", "clearing"}
             => key = (CHOOSE k \in DOMAIN cacheManagers : TRUE) /\ failing = {}
          /\ LET r == invalidateQueries_resumed(
                          config, cacheManagers, isClient, localStorage, calls,
                          inv, key, failing, now, AwaitingFirstResponse)
             IN /\ cacheManagers' = r.cacheManagers
                /\ calls' = r.calls
                /\ invalidation' = r.invalidation
                /\ localStorage' = r.localStorage
    /\ InvalidateFrame

\* invalidateQueries(queryKey) is called: it runs up to its first await
InvalidateQueries ==
    /\ invalidation.pc = "idle"
    /\ \E queryKey \in QueryKeys :
          InvalidateRuns([invalidation EXCEPT !.queryKey = queryKey])

\* the request of the awaited refetch callback settled and
\* `await this.refetchCallback(key)` is resumed
RefetchReturns ==
    /\ invalidation.pc = "awaiting"
    /\ calls[Refetcher].pc \in {"done", "failed"}
    /\ InvalidateRuns(invalidation)

\* `await manager.invalidateAndRefetch()` is resumed: clear() is called
InvalidateClears ==
    /\ invalidation.pc = "clearing"
    /\ InvalidateRuns(invalidation)

\* `await manager.clear()` is resumed: the loop over the registry goes on
InvalidateNext ==
    /\ invalidation.pc = "running"
    /\ InvalidateRuns(invalidation)

NextInvalidate ==
    \/ \E c \in DOMAIN calls : Request(c)
    \/ \E c \in DOMAIN calls : FetchResponds(c)
    \/ \E c \in DOMAIN calls : FetchSettles(c)
    \/ Tick
    \/ InvalidateQueries
    \/ RefetchReturns
    \/ InvalidateClears
    \/ InvalidateNext

SpecInvalidate == InitInvalidate /\ [][NextInvalidate]_vars

(***************************************************************************)
(* Claims about invalidateQueries, checked under SpecInvalidate.           *)
(***************************************************************************)

\* the keys of the managers that hold a cached entry of a call of route q
CachedOfRoute(q) ==
    {k \in DOMAIN cacheManagers :
        /\ cacheManagers[k] # None
        /\ k.routeName = q
        /\ Cache_get(Val(cacheManagers[k]), isClient, localStorage, k) # None}

\* C15: invalidateQueries called with a route name runs invalidateAndRefetch
\* and then clear on the managers that hold cached entries of that route:
\* once the call has run up to its first suspension, every such manager has
\* been cleared or the work on the managers is under way.
C15_InvalidateByRouteName ==
    [][\A q \in DOMAIN routes :
          (/\ invalidation.pc = "idle"
           /\ invalidation'.pc # "idle"
           /\ invalidation'.queryKey = q)
          => \A k \in CachedOfRoute(q) :
                \/ k \in invalidation'.visited
                \/ invalidation'.manager = Some(k)
                \/ invalidation'.pc \in {"awaiting", "running"}]_vars

\* a step in which clear() is called on the manager of key k
Clears(k) == k \notin invalidation.visited /\ k \in invalidation'.visited

\* when a manager is cleared its invalidateAndRefetch has run to completion:
\* the callback was invoked for every key of the snapshot and no refetch is
\* in flight; the managers are cleared one at a time
ClearedAfterRefetches ==
    \A k \in DOMAIN cacheManagers :
        Clears(k) =>
            /\ invalidation'.visited = invalidation.visited \cup {k}
            /\ invalidation'.manager = None
            /\ invalidation'.remaining = 0
            /\ invalidation'.invoked = invalidation'.entries
            /\ calls'[Refetcher].pc = "unused"
            /\ Val(cacheManagers'[k]).strategy # "local-storage"
               => Cache_keys(Val(cacheManagers'[k]), isClient, localStorage') = {}

\* every manager of the registry went through invalidateAndRefetch and clear
EveryManagerProcessed ==
    \A k \in DOMAIN cacheManagers :
        cacheManagers'[k] # None => k \in invalidation'.visited

\* C16 as stated: invalidateQueries('all') processes every manager of the
\* registry, running for each invalidateAndRefetch to completion and only
\* then clear, one manager after the other; no manager is cleared before
\* its refetches have finished.
C16_AllManagersRefetchedThenCleared ==
    [][/\ ClearedAfterRefetches
       /\ (/\ invalidation.pc \notin {"resolved", "rejected"}
           /\ invalidation'.pc \in {"resolved", "rejected"}
           /\ invalidation'.queryKey = "all")
          => EveryManagerProcessed]_vars

\* C16, amended: invalidateQueries('all') goes through the managers of the
\* registry one after the other, running for each invalidateAndRefetch to
\* completion and only then clear; no manager is cleared before its
\* refetches have finished; when it resolves it has processed every
\* manager; the first refetch that rejects makes it reject, the manager at
\* hand not being cleared and the remaining managers not being processed.
C16_ManagersRefetchedThenClearedUntilRejection ==
    [][/\ ClearedAfterRefetches
       /\ (/\ invalidation.pc # "resolved"
           /\ invalidation'.pc = "resolved"
           /\ invalidation'.queryKey = "all")
          => EveryManagerProcessed
       /\ (invalidation.pc # "rejected" /\ invalidation'.pc = "rejected")
          => /\ invalidation'.visited = invalidation.visited
             /\ invalidation'.manager # None
             /\ Val(invalidation'.manager) \notin invalidation'.visited
             /\ cacheManagers' = cacheManagers
             /\ calls[Refetcher].pc = "failed"]_vars

\* two managers, each holding an entry, both refetched and cleared
C16_Witness ==
    /\ invalidation.pc = "resolved"
    /\ invalidation.queryKey = "all"
    /\ Cardinality(invalidation.visited) = 2
    /\ invalidation.entries = 2
    /\ invalidation.invoked = 2
    /\ \A k \in invalidation.visited :
          Cache_keys(Val(cacheManagers[k]), isClient, localStorage) = {}

\* C17: invalidateQueries invalidates the cached queries and triggers a
\* refetch: for every cached key of a targeted manager there is at least
\* one network fetch, made by the refetch callback called for that key,
\* before invalidateQueries resolves, for every staleTime >= 0.
C17_InvalidateTriggersFetch ==
    invalidation.pc = "resolved" =>
        /\ invalidation.invoked = invalidation.entries
        /\ invalidation.fetched = invalidation.entries

(***************************************************************************)
(* Claims about cancellation, checked under SpecAbort.                     *)
(***************************************************************************)

\* C18: when the caller's signal is aborted while the retry session of a
\* call waits between two attempts, the next attempt is not started: the
\* operation (executeRequest, which calls fetch) is not invoked again, so
\* the call has made no more fetches than it had made when it was aborted.
C18_NoAttemptAfterAbortInDelay ==
    \A c \in DOMAIN calls :
        (calls[c].abort # None /\ Val(calls[c].abort).during = "waiting")
        => calls[c].fetches = Val(calls[c].abort).fetches

(***************************************************************************)
(* Claims about the cache key, checked under SpecKey.                      *)
(***************************************************************************)

\* the name/value pairs of an object of the options
Pairs(object) == IF object = None THEN {} ELSE Range(Val(object))

\* the name/text pairs of the query that reach the URL
UrlPairs(query) == Range(appendQueryParams(<<>>, query))

\* calls c and d were made with the same route name, the same path-param
\* pairs and the same query pairs
SameLogicalCall(c, d) ==
    /\ calls[c].pc # "idle" /\ calls[d].pc # "idle"
    /\ calls[c].input.routeName = calls[d].input.routeName
    /\ Pairs(calls[c].input.params) = Pairs(calls[d].input.params)
    /\ Pairs(calls[c].input.query) = Pairs(calls[d].input.query)

\* C21: the cache key is a function of the logical call: two calls with
\* the same route name, the same path-param name/value pairs and the same
\* query name/value pairs have the same cache key, whatever the order in
\* which the caller listed the properties.
C21_SameLogicalCallSameKey ==
    \A c, d \in DOMAIN calls :
        SameLogicalCall(c, d)
        => cacheKeyOf(calls[c].input) = cacheKeyOf(calls[d].input)

\* calls c and d differ in route name, in a path-param value or in a query
\* value that reaches the URL
DistinctLogicalCalls(c, d) ==
    /\ calls[c].pc # "idle" /\ calls[d].pc # "idle"
    /\ \/ calls[c].input.routeName # calls[d].input.routeName
       \/ Pairs(calls[c].input.params) # Pairs(calls[d].input.params)
       \/ UrlPairs(calls[c].input.query) # UrlPairs(calls[d].input.query)

\* call d returned, without a fetch, the entry call c wrote
ServedTheEntryOf(d, c) ==
    /\ calls[d].pc = "done"
    /\ calls[d].fetches = 0
    /\ trace[cacheKeyOf(calls[d].input)].writer = c

\* C22: the cache key is injective on logical calls: two calls that differ
\* in route name, in a path-param value or in a query value that reaches
\* the URL never have the same cache key, and neither is served the entry
\* the other wrote.
C22_DistinctCallsDistinctKeys ==
    \A c, d \in DOMAIN calls :
        DistinctLogicalCalls(c, d)
        => /\ cacheKeyOf(calls[c].input) # cacheKeyOf(calls[d].input)
           /\ ~ServedTheEntryOf(d, c)

(***************************************************************************)
(* Claims about the persistent storage, checked under SpecStorage.         *)
(***************************************************************************)

\* C23: outside a browser every LocalStorage operation is a no-op: get
\* finds nothing, set, delete and clear leave the items as they were,
\* forEach visits nothing, and each of them returns; a client with the
\* local-storage strategy then never has a cache hit and every call it
\* makes performs a fetch.
C23_NoWindowNoOps ==
    ~isClient =>
        /\ session.op # "none" =>
              /\ session.completion = "returns"
              /\ session.found = None
              /\ session.visited = {}
              /\ localStorage = Val(session.before)
        /\ \A c \in DOMAIN calls :
              calls[c].pc # "idle" => calls[c].cached = None /\ calls[c].fetches >= 1

\* outside a browser, the items hold a fresh entry under the key of a call
\* that nevertheless fetched, and a get of the caller on an item found nothing
C23_Witness ==
    /\ ~isClient
    /\ calls[1].pc = "done"
    /\ calls[1].fetches = 1
    /\ calls[1].writes = 1
    /\ now <= MaxStaleTime
    /\ localStorage[cacheKeyOf(calls[1].input)] = Some(JSON_stringify(Entry("v1", 0)))
    /\ session.op = "get"
    /\ Val(session.before)[Val(session.key)] = Some(JSON_stringify(Entry("v1", 0)))

\* the write-back of call c ran in this step and setItem failed in it
WriteBackFails(c) ==
    /\ calls[c].pc = "fetching"
    /\ calls'[c].writes = calls[c].writes + 1
    /\ isClient
    /\ ~trace'[cacheKeyOf(calls[c].input)].stored

\* C24: a write to the persistent storage that fails is caught inside
\* LocalStorage.set: set returns, the items (the entry stored before under
\* the key among them) are left as they were, and a call of the pipeline
\* whose write-back fails this way still returns its validated value.
C24_FailedWriteIsCaught ==
    [][/\ (session' # session /\ session'.op = "set" /\ session'.failed)
          => /\ session'.completion = "returns"
             /\ localStorage' = localStorage
       /\ \A c \in DOMAIN calls :
             WriteBackFails(c)
             => /\ localStorage' = localStorage
                /\ calls'[c].pc = "done"
                /\ calls'[c].value =
                      executeRequest_result(config, Val(calls'[c].outcome)).value]_vars

\* a set of the caller failed over an entry, and the write-back of the call
\* failed over an entry
C24_Witness ==
    /\ isClient
    /\ session.op = "set"
    /\ session.failed
    /\ IsSome(Val(session.before)[Val(session.key)])
    /\ calls[1].pc = "done"
    /\ calls[1].writes = 1
    /\ ~trace[cacheKeyOf(calls[1].input)].stored
    /\ IsSome(localStorage[cacheKeyOf(calls[1].input)])

\* the item the last operation of the caller found under its key
ItemRead == Val(session.before)[Val(session.key)]

\* C25: CacheManager.get never throws: it returns absent for an absent
\* key and for an item under the prefix that fails to parse, and so does
\* LocalStorage.get; forEach of the persistent storage skips such items
\* and visits the others.
C25_GetToleratesCorruptItems ==
    /\ session.op \in {"get", "manager.get", "forEach"}
       => session.completion = "returns"
    /\ (/\ session.op \in {"get", "manager.get"}
        /\ (ItemRead = None \/ ~Val(ItemRead).parses))
       => session.found = None
    /\ (session.op = "forEach" /\ isClient)
       => session.visited =
             {k \in CacheKeys : /\ Val(session.before)[k] # None
                                /\ Val(Val(session.before)[k]).parses}

\* CacheManager.get in a browser on an item that fails to parse
C25_Witness ==
    /\ isClient
    /\ session.op = "manager.get"
    /\ ItemRead = Some(Corrupt)
    /\ session.found = None

(***************************************************************************)
(* Claims about the tuple-returning client, checked under SpecTea.         *)
(***************************************************************************)

\* C26: the tuple-returning client is total and unambiguous: every call
\* that has settled has resolved, never rejected, and to a tuple that
\* holds either an error and no data or data and no error, whatever the
\* failure (an invalid URL among them).
C26_TupleClientIsTotal ==
    \A c \in DOMAIN calls :
        calls[c].pc \notin {"idle", "fetching"}
        => /\ calls[c].pc = "resolved"
           /\ calls[c].rejection = None
           /\ IsSome(calls[c].result)
           /\ IsSome(Val(calls[c].result).error) # IsSome(Val(calls[c].result).data)

(***************************************************************************)
(* Claims about what the pipeline writes to the cache, checked under Spec. *)
(***************************************************************************)

\* the entries of the cache: those of the Map of every manager of the
\* registry and the items of window.localStorage
EntryState ==
    [memory |-> [k \in DOMAIN cacheManagers |->
                    IF cacheManagers[k] = None THEN None
                    ELSE Val(cacheManagers[k]).storage[k]],
     persistent |-> localStorage]

\* the fetch of call c settled in this step with a body that passes
\* validation
PassesValidation(c) ==
    /\ calls[c].pc = "fetching"
    /\ calls'[c].outcome # calls[c].outcome \/ calls'[c].pc = "done"
    /\ Val(calls'[c].outcome).kind = "json"
    /\ response_parse(IF config.interceptors
                      THEN responseInterceptor(Val(Val(calls'[c].outcome).body))
                      ELSE Val(Val(calls'[c].outcome).body)) # None

\* a step of call c in which an attempt of it fails or the call ends in a
\* failure
FailingStep(c) ==
    /\ calls[c].pc \in {"idle", "fetching", "waiting"}
    /\ calls'[c].pc \in {"failed", "waiting"}
    /\ calls'[c] # calls[c]

\* C27: a call that ends in a failure (transport failure, non-success
\* status, unparsable body, schema violation, retry exhaustion) neither
\* creates, replaces nor removes a cache entry: its failing steps leave
\* every entry, payload and timestamp, as it was and a key without entry
\* without one; the entries change only in a step in which a fetch passed
\* validation.
C27_FailureLeavesCacheAlone ==
    [][/\ \A c \in DOMAIN calls : FailingStep(c) => EntryState' = EntryState
       /\ EntryState' # EntryState
          => \E c \in DOMAIN calls : PassesValidation(c) /\ calls'[c].pc = "done"]_vars

\* call 2 fetched and failed on the key whose entry call 1 had written
\* earlier, and the entry is still the one call 1 wrote
C27_Witness ==
    /\ calls[1].pc = "done"
    /\ calls[1].writes = 1
    /\ calls[2].pc = "failed"
    /\ calls[2].fetches >= 1
    /\ calls[2].input = calls[1].input
    /\ LET key == cacheKeyOf(calls[1].input) IN
       /\ trace[key].writer = 1
       /\ cacheManagers[key] # None
       /\ Cache_get(Val(cacheManagers[key]), isClient, localStorage, key)
             = Some(Entry(calls[1].value, 0))
       /\ now > 0

\* the fetch of call c settled in this step
FetchSettled(c) ==
    /\ calls[c].pc = "fetching"
    /\ calls'[c].pc # "fetching" \/ calls'[c].fetches # calls[c].fetches

\* what the response interceptor, when one is configured, makes of a body
Intercepted(body) == IF config.interceptors THEN responseInterceptor(body) ELSE body

\* the entry a manager reads back after set(key, value) at time t took
\* effect: the memory storage keeps the value, the persistent one what
\* JSON.parse(JSON.stringify(entry)) gives
EntryOf(manager, value, t) ==
    IF manager.strategy = "local-storage"
    THEN Entry(JsonData(value), t)
    ELSE Entry(value, t)

\* C29: on a miss or a stale hit the steps occur in the order fetch,
\* response interceptor, schema validation, cache write-back, return: the
\* response interceptor runs only after a success status and a parsed
\* body, validation runs on what the interceptor returned, and the value
\* written to the cache is the validated value the call returns, never the
\* raw body nor the interceptor's output (the entry read back is that value
\* as the storage keeps it).
C29_InterceptThenValidateThenWrite ==
    [][\A c \in DOMAIN calls :
          FetchSettled(c) =>
             LET outcome == Val(calls'[c].outcome)
                 key == cacheKeyOf(calls[c].input)
             IN /\ calls'[c].responseInterceptions =
                      calls[c].responseInterceptions
                      + (IF outcome.kind = "json" /\ config.interceptors THEN 1 ELSE 0)
                /\ (outcome.kind = "json"
                    /\ response_parse(Intercepted(Val(outcome.body))) # None)
                   => /\ calls'[c].pc = "done"
                      /\ calls'[c].value =
                            Val(response_parse(Intercepted(Val(outcome.body))))
                /\ calls'[c].writes = calls[c].writes + 1
                   => /\ calls'[c].pc = "done"
                      /\ outcome.kind = "json"
                      /\ calls'[c].value =
                            Val(response_parse(Intercepted(Val(outcome.body))))
                      /\ trace'[key].stored
                         => Cache_get(Val(cacheManagers'[key]), isClient,
                                      localStorage', key)
                            \in {Some(EntryOf(Val(cacheManagers'[key]),
                                              calls'[c].value, now)), None}
                      /\ (trace'[key].stored /\ (isClient \/
                            Val(cacheManagers'[key]).strategy # "local-storage"))
                         => Cache_get(Val(cacheManagers'[key]), isClient,
                                      localStorage', key)
                            = Some(EntryOf(Val(cacheManagers'[key]),
                                           calls'[c].value, now))]_vars

\* a call whose body was an envelope: the interceptor unwrapped it, the
\* schema stripped it, and the stripped value was written and returned
C29_Witness ==
    /\ config.interceptors
    /\ calls[1].pc = "done"
    /\ Val(calls[1].outcome).body = Some("env")
    /\ calls[1].responseInterceptions = 1
    /\ calls[1].writes = 1
    /\ calls[1].value = "v2"
    /\ LET key == cacheKeyOf(calls[1].input) IN
       /\ trace[key].writer = 1
       /\ Cache_get(Val(cacheManagers[key]), isClient, localStorage, key)
             = Some(Entry("v2", now))

(***************************************************************************)
(* Claims about invalidate and invalidateAll, checked under SpecCache.     *)
(***************************************************************************)

\* C28: CacheManager.invalidate(key) and invalidateAll() are no-ops on the
\* observable state: they leave the payload and the timestamp of every
\* entry as they were, create no entry for an absent key, and so change
\* nothing of what a get reports at any later instant.
C28_InvalidateChangesNothing ==
    [][(CacheInvalidate \/ CacheInvalidateAll)
       => \A k \in Keys :
             /\ Cache_get(mgr', isClient, localStorage', k)
                   = Cache_get(mgr, isClient, localStorage, k)
             /\ \A t \in now..MaxTime :
                   CacheManager_get(mgr', isClient, localStorage', k, t)
                     = CacheManager_get(mgr, isClient, localStorage, k, t)]_vars

\* entries were set, time passed and invalidate or invalidateAll ran: one
\* key still holds the entry of instant 0, now stale, the other none
C28_Witness ==
    /\ trace = NoTrace
    /\ now > mgr.staleTime
    /\ Cache_get(mgr, isClient, localStorage, "k1") = Some(Entry("v1", 0))
    /\ Cache_get(mgr, isClient, localStorage, "k2") = None
    /\ CacheManager_get(mgr, isClient, localStorage, "k1", now) # None
    /\ Val(CacheManager_get(mgr, isClient, localStorage, "k1", now)).status = "stale"

(***************************************************************************)
(* Claims about the waits of retryRequest, checked under SpecRetry.        *)
(***************************************************************************)

\* C30: retryRequest waits only before a next attempt: it never waits once
\* fn has been invoked attempts times, and when all n >= 1 attempts failed
\* exactly n - 1 waits occurred, of delay * 1 ... delay * (n - 1); with
\* n = 1 no wait occurs at all.
C30_WaitsOnlyBeforeNextAttempt ==
    /\ session.pc = "waiting" => session.invocations < session.attempts
    /\ (session.pc = "rejected" /\ session.attempts >= 1)
       => /\ Len(session.waits) = session.attempts - 1
          /\ \A i \in 1..Len(session.waits) : session.waits[i] = session.delay * i

\* call c returns in this step
Returns(c) == calls[c].pc # "done" /\ calls'[c].pc = "done"

\* call c returns, at its lookup, the payload of the entry of its key, and
\* that entry reads as fresh at this instant
ReturnsFreshEntry(c) ==
    LET key == cacheKeyOf(calls'[c].input) IN
    /\ calls[c].pc = "idle"
    /\ calls'[c].fetches = 0
    /\ cacheManagers'[key] # None
    /\ LET m == Val(cacheManagers'[key])
           entry == Cache_get(m, isClient, localStorage, key)
       IN /\ entry # None
          /\ now - Val(entry).timestamp <= m.staleTime
          /\ calls'[c].value = Val(entry).data

\* call c returns the validated result of a fetch of its own that settled
\* in this step
ReturnsFetched(c) ==
    /\ calls[c].pc = "fetching"
    /\ calls'[c].fetches >= 1
    /\ Val(calls'[c].outcome).kind = "json"
    /\ response_parse(Intercepted(Val(Val(calls'[c].outcome).body)))
          = Some(calls'[c].value)

\* C31: the pipeline never returns a stale cached payload: every value a
\* call returns is the payload of an entry that reads as fresh at the moment
\* of the lookup or the validated result of a fetch performed during that
\* call; a call that found a stale entry and whose fetch failed does not
\* return.
C31_NeverReturnsStale ==
    [][\A c \in DOMAIN calls :
          /\ Returns(c) => ReturnsFreshEntry(c) \/ ReturnsFetched(c)
          /\ (/\ calls[c].pc = "fetching"
              /\ calls[c].cached # None
              /\ calls'[c].pc # "fetching"
              /\ ~PassesValidation(c))
             => calls'[c].pc \in {"failed", "waiting"}]_vars

\* call 2 found the entry call 1 had written, stale by then, fetched and
\* failed
C31_Witness ==
    /\ calls[1].pc = "done"
    /\ calls[1].writes = 1
    /\ calls[2].pc = "failed"
    /\ calls[2].fetches = 1
    /\ calls[2].cached # None
    /\ Val(calls[2].cached).status = "stale"
    /\ Val(calls[2].cached).data = calls[1].value

(***************************************************************************)
(* Claims about the freshness get reports, checked under SpecCache.        *)
(***************************************************************************)

\* a get of key k at this instant reports stale
ReadsStale(k) ==
    /\ CacheManager_get(mgr, isClient, localStorage, k, now) # None
    /\ Val(CacheManager_get(mgr, isClient, localStorage, k, now)).status = "stale"

\* C32: CacheManager.get does not modify the stored entry, and the
\* freshness of an entry that is not rewritten only moves from fresh to
\* stale: while the clock does not go back, an entry that reads as stale
\* reads as stale after every step that is neither a set nor a clear.
C32_StaleStaysStale ==
    [][/\ CacheGet => \A k \in Keys :
                          Cache_get(mgr', isClient, localStorage', k)
                            = Cache_get(mgr, isClient, localStorage, k)
       /\ ~(CacheSet \/ CacheClear)
          => \A k \in Keys : ReadsStale(k) => ReadsStale(k)']_vars

\* a get reported stale for an entry that had been stale for a while
C32_Witness ==
    /\ trace.lastGet # None
    /\ Val(trace.lastGet).state # None
    /\ Val(Val(trace.lastGet).state).status = "stale"
    /\ Val(trace.lastGet).at
          >= Val(Val(trace.lastGet).state).timestamp + mgr.staleTime + 2
    /\ ReadsStale(Val(trace.lastGet).key)

(***************************************************************************)
(* SpecClients: createTea is called up to twice with one cache             *)
(* configuration, in a browser.  cacheManagers is the sequence of the      *)
(* `cacheManagers` Maps the calls of createTea made, one per client, in    *)
(* the order of the calls, calls the sequence of the clients' calls (one   *)
(* call by a caller and the call of the refetch callbacks for each), and   *)
(* session is the module's globalCacheManager: 0 for null, else the        *)
(* position of the Map it refers to.  The clients' callers make their      *)
(* calls, the fetches settle as the network decides, invalidateQueries is  *)
(* called once, at any moment, and runs from one await to the next;        *)
(* invalidation.global is the value of globalCacheManager it read when it  *)
(* was called, the Map its loop goes over.                                 *)
(***************************************************************************)
Clients == {1, 2}

\* `globalCacheManager = cacheManagers` of the createTea call that makes the
\* client at position made
createTea_globalKept(global, made) == IF global = 0 THEN made ELSE global

createTea_global(global, made) == made

\* `const cacheManagers = new Map<string, CacheManager>()`
createTea_cacheManagers == [k \in CacheKeys |-> None]

\* what the managers of a registry return for each key
ClientEntries(registry, items) ==
    [k \in DOMAIN registry |->
        IF registry[k] = None THEN None
        ELSE Cache_get(Val(registry[k]), isClient, items, k)]

InitClients ==
    /\ now = 0
    /\ isClient = TRUE
    /\ localStorage = [k \in CacheKeys |-> None]
    /\ cacheManagers = <<>>
    /\ calls = <<>>
    /\ session = 0
    /\ config \in {Config(CacheConfig(st, MaxStaleTime), None, FALSE) :
                      st \in {"memory", "local-storage"}}
    /\ invalidation = NoInvalidation @@ [global |-> 0]
    /\ trace = <<>>
    /\ mgr = <<>>

ClientsFrame == UNCHANGED <<isClient, config, trace, mgr>>

\* createTea(baseUrl, routes, config)
CreateTea ==
    /\ Len(cacheManagers) < Cardinality(Clients)
    /\ cacheManagers' = Append(cacheManagers, createTea_cacheManagers)
    /\ calls' = Append(calls, [c \in {1, Refetcher} |->
                                  IF c = Refetcher THEN NoRefetcher ELSE NewCall])
    /\ session' = createTea_global(session, Len(cacheManagers) + 1)
    /\ UNCHANGED <<now, localStorage, invalidation>>
    /\ ClientsFrame

\* request(routeName, options, cache) of client i is called: it runs up to
\* its first await
ClientRequest(i) ==
    \E shape \in CallShapes :
        /\ calls[i][1].pc = "idle"
        /\ cacheManagers' =
              [cacheManagers EXCEPT ![i] =
                  request_registry(config, @, shape[1], shape[2])]
        /\ calls' =
              [calls EXCEPT ![i][1] =
                  request_call(config, cacheManagers[i], isClient, localStorage, @,
                               shape[1], shape[2], now, {})]
        /\ UNCHANGED <<now, session, localStorage, invalidation>>
        /\ ClientsFrame

\* the fetch of call c of client i fulfils with the head of a response:
\* executeRequest is resumed, reads response.ok and awaits response.json()
ClientFetchResponds(i, c) ==
    \E status \in Statuses :
        /\ calls[i][c].pc = "fetching"
        /\ calls[i][c].head = None
        /\ calls' = [calls EXCEPT ![i][c].head = Some(status)]
        /\ UNCHANGED <<now, session, localStorage, cacheManagers, invalidation>>
        /\ ClientsFrame

\* the promise call c of client i awaits settles, the fetch by rejecting or
\* response.json() either way, and executeRequest runs to its end
ClientFetchSettles(i, c) ==
    \E outcome \in PendingOutcomes(calls[i][c].head), stored \in BOOLEAN :
        /\ calls[i][c].pc = "fetching"
        /\ LET key == cacheKeyOf(calls[i][c].input)
               r == executeRequest_end(config, cacheManagers[i], isClient,
                                       localStorage, calls[i][c], outcome, stored,
                                       now)
           IN /\ stored \/ (r.writes /\ Persists(Val(cacheManagers[i][key])))
              /\ cacheManagers' = [cacheManagers EXCEPT ![i] = r.cacheManagers]
              /\ localStorage' = r.localStorage
              /\ calls' = [calls EXCEPT ![i][c] = r.call]
        /\ UNCHANGED <<now, session, invalidation>>
        /\ ClientsFrame

\* invalidateQueries, reading the Map at position global, runs from where it
\* stands to its next await or its end
ClientsRuns(inv, global) ==
    /\ \E key \in CacheKeys, failing \in SUBSET CacheKeys :
          /\ inv.pc \in {"idle", "running"}
             => invalidateQueries_takes(cacheManagers[global], isClient,
                                        localStorage, inv, key, failing)
          /\ inv.pc \in {"awaiting", "clearing"}
             => key = (CHOOSE k \in CacheKeys : TRUE) /\ failing = {}
          /\ LET r == invalidateQueries_resumed(
                          config, cacheManagers[global], isClient, localStorage,
                          calls[global], inv, key, failing, now, {})
             IN /\ cacheManagers' = [cacheManagers EXCEPT ![global] = r.cacheManagers]
                /\ calls' = [calls EXCEPT ![global] = r.calls]
                /\ invalidation' = r.invalidation
                /\ localStorage' = r.localStorage
    /\ UNCHANGED <<now, session>>
    /\ ClientsFrame

\* invalidateQueries(queryKey) is called: `if (!globalCacheManager ||
\* !currentSchema) return;`, else it runs up to its first await
ClientsInvalidate ==
    /\ invalidation.pc = "idle"
    /\ IF session = 0
       THEN /\ invalidation' = [invalidation EXCEPT !.pc = "resolved"]
            /\ UNCHANGED <<now, session, cacheManagers, calls, localStorage>>
            /\ ClientsFrame
       ELSE \E queryKey \in QueryKeys :
               ClientsRuns([invalidation EXCEPT !.queryKey = queryKey,
                                                !.global = session],
                           session)

\* invalidateQueries is resumed from the await it is suspended at
ClientsResume ==
    /\ invalidation.pc \in {"awaiting", "clearing", "running"}
    /\ invalidation.pc = "awaiting"
       => calls[invalidation.global][Refetcher].pc \in {"done", "failed"}
    /\ ClientsRuns(invalidation, invalidation.global)

ClientsTick ==
    /\ now < MaxTime
    /\ now' = now + 1
    /\ UNCHANGED <<localStorage, cacheManagers, calls, session, invalidation>>
    /\ ClientsFrame

NextClients ==
    \/ CreateTea
    \/ \E i \in DOMAIN cacheManagers : ClientRequest(i)
    \/ \E i \in DOMAIN cacheManagers, c \in {1, Refetcher} : ClientFetchResponds(i, c)
    \/ \E i \in DOMAIN cacheManagers, c \in {1, Refetcher} : ClientFetchSettles(i, c)
    \/ ClientsInvalidate
    \/ ClientsResume
    \/ ClientsTick

SpecClients == InitClients /\ [][NextClients]_vars

(***************************************************************************)
(* Claims about several clients, checked under SpecClients.                *)
(***************************************************************************)
\* invalidateQueries is called in the step
InvalidateCalled == invalidation.pc = "idle" /\ invalidation'.pc # "idle"

\* a step of invalidateQueries, or of the request one of its refetch
\* callbacks made
InvalidationActs ==
    \/ invalidation' # invalidation
    \/ \E i \in DOMAIN calls : calls'[i][Refetcher] # calls[i][Refetcher]

\* called before any client is made, invalidateQueries returns and changes
\* nothing
NothingBeforeCreateTea ==
    (InvalidateCalled /\ cacheManagers = <<>>)
    => /\ invalidation'.pc = "resolved"
       /\ UNCHANGED <<cacheManagers, calls, localStorage>>

\* C33 as stated: invalidateQueries acts on the registry of the client made
\* last only: before any client is made it changes nothing, and it leaves
\* every entry of a client made earlier as it was.
C33_Original ==
    [][/\ NothingBeforeCreateTea
       /\ InvalidateCalled => invalidation'.global = Len(cacheManagers)
       /\ InvalidationActs
          => \A i \in DOMAIN cacheManagers :
                i < invalidation'.global
                => ClientEntries(cacheManagers'[i], localStorage')
                     = ClientEntries(cacheManagers[i], localStorage)]_vars

\* C33, amended: invalidateQueries changes nothing before any client is
\* made; else it works on the Map of the client made last before it was
\* called, and leaves the Maps of the managers of every other client as
\* they were, and with them every entry another client keeps in memory; the
\* clients of the persistent strategy share the items of the storage, which
\* the refresh of the latest client's managers writes.
C33_LatestRegistryOnly ==
    [][/\ NothingBeforeCreateTea
       /\ InvalidateCalled => invalidation'.global = Len(cacheManagers)
       /\ InvalidationActs
          => \A i \in DOMAIN cacheManagers :
                i # invalidation'.global
                => /\ cacheManagers'[i] = cacheManagers[i]
                   /\ Val(config.cache).strategy # Some("local-storage")
                      => ClientEntries(cacheManagers'[i], localStorage')
                           = ClientEntries(cacheManagers[i], localStorage)]_vars

\* two clients of the memory strategy each fetched and wrote an entry at 0;
\* invalidateQueries('all'), called at 1, refreshed and cleared the second
\* client's manager and resolved, while the first client keeps its entry
C33_Witness ==
    /\ Len(cacheManagers) = 2
    /\ Val(config.cache).strategy = Some("memory")
    /\ invalidation.pc = "resolved"
    /\ invalidation.queryKey = "all"
    /\ invalidation.global = 2
    /\ invalidation.entries = 1
    /\ invalidation.invoked = 1
    /\ now = 1
    /\ \A i \in Clients : calls[i][1].pc = "done" /\ calls[i][1].writes = 1
    /\ \E k \in CacheKeys :
          /\ k \in invalidation.visited
          /\ cacheManagers[1][k] # None
          /\ cacheManagers[2][k] # None
          /\ ClientEntries(cacheManagers[1], localStorage)[k] # None
          /\ Val(ClientEntries(cacheManagers[1], localStorage)[k]).timestamp = 0
          /\ ClientEntries(cacheManagers[2], localStorage)[k] = None

(***************************************************************************)
(* SpecShared: SpecInvalidate with, for the persistent storage, a window   *)
(* localStorage that may hold, when the client is made, entries written    *)
(* under the prefix before (the items outlive the page), so that the items *)
(* can be those of several cache keys.                                     *)
(***************************************************************************)
InitShared ==
    /\ now = 0
    /\ cacheManagers = [k \in CacheKeys |-> None]
    /\ trace = [k \in CacheKeys |-> NoWrite]
    /\ session = <<>>
    /\ mgr = <<>>
    /\ invalidation = NoInvalidation
    /\ isClient = TRUE
    /\ \/ /\ config = Config(CacheConfig("memory", MaxStaleTime), None, TRUE)
          /\ localStorage = [k \in CacheKeys |-> None]
          /\ calls = [c \in {1, 2, Refetcher} |->
                         IF c = Refetcher THEN NoRefetcher ELSE NewCall]
       \/ /\ config = Config(CacheConfig("local-storage", 0), None, TRUE)
          /\ localStorage \in [CacheKeys -> {None, Some(JSON_stringify(Entry("v1", 0)))}]
          /\ calls = [c \in {1, Refetcher} |->
                         IF c = Refetcher THEN NoRefetcher ELSE NewCall]

SpecShared == InitShared /\ [][NextInvalidate]_vars

(***************************************************************************)
(* Claims about the persisted namespace, checked under SpecShared.         *)
(***************************************************************************)
\* the step in which invalidateQueries rejects
InvalidateRejects == invalidation.pc # "rejected" /\ invalidation'.pc = "rejected"

\* C34: when the request of a refetch callback rejects, invalidateAndRefetch
\* rejects with that error and calls the callback for no later key of its
\* snapshot, the entries keeping what the first loop wrote; invalidateQueries
\* rejects with the same error in the same step, the manager at hand not
\* cleared, the managers after it not visited, and does nothing after.
C34_RejectionEndsInvalidation ==
    [][/\ InvalidateRejects
          => /\ invalidation.pc = "awaiting"
             /\ calls[Refetcher].pc = "failed"
             /\ invalidation'.error = Some(calls[Refetcher].error)
             /\ invalidation'.invoked = invalidation.invoked
             /\ invalidation'.remaining = invalidation.remaining
             /\ invalidation'.manager = invalidation.manager
             /\ invalidation'.visited = invalidation.visited
             /\ Val(invalidation.manager) \notin invalidation.visited
             /\ cacheManagers' = cacheManagers
             /\ localStorage' = localStorage
       /\ invalidation.pc = "rejected" => invalidation' = invalidation]_vars

\* the snapshot held two entries, refreshed at 1; the fetch of the callback
\* called for the first one failed: the other key got no call, both entries
\* keep the timestamp 1, and no manager was cleared
C34_Witness ==
    /\ invalidation.pc = "rejected"
    /\ invalidation.queryKey = "all"
    /\ invalidation.entries = 2
    /\ invalidation.invoked = 1
    /\ invalidation.remaining = 1
    /\ invalidation.visited = {}
    /\ invalidation.error # None
    /\ now = 2
    /\ \E k \in CacheKeys :
          /\ invalidation.manager = Some(k)
          /\ Cardinality(Cache_keys(Val(cacheManagers[k]), isClient, localStorage)) = 2
          /\ \A e \in Cache_keys(Val(cacheManagers[k]), isClient, localStorage) :
                Val(Cache_get(Val(cacheManagers[k]), isClient, localStorage, e)).timestamp = 1

(***************************************************************************)
(* Claims about the attempts of a call, checked under SpecSolo.            *)
(***************************************************************************)
\* call c makes a fetch in the step
Fetches(c) == calls'[c].fetches = calls[c].fetches + 1

\* C35: the request interceptor is invoked once per attempt: a call has as
\* many invocations of it as fetches at any moment, an invocation happens
\* only in a step that makes a fetch, and the fetch of an attempt gets the
\* descriptor that attempt's invocation returned.
C35_InterceptedOncePerAttempt ==
    [][\A c \in DOMAIN calls :
          /\ calls[c].fetches' = calls[c].fetches \/ Fetches(c)
          /\ ~Fetches(c) => /\ calls'[c].requestInterceptions
                                 = calls[c].requestInterceptions
                            /\ calls'[c].finalRequest = calls[c].finalRequest
          /\ (Fetches(c) /\ config.interceptors)
             => /\ calls'[c].requestInterceptions = calls'[c].fetches
                /\ calls'[c].finalRequest =
                      Some(requestInterceptor(requestInit(calls'[c].input),
                                              calls'[c].fetches))
          /\ (Fetches(c) /\ ~config.interceptors)
             => /\ calls'[c].requestInterceptions = 0
                /\ calls'[c].finalRequest = Some(requestInit(calls'[c].input))]_vars

\* a call under a retry policy whose third attempt is in flight with the
\* descriptor of the third invocation
C35_Witness ==
    /\ config.interceptors
    /\ config.retry # None
    /\ calls[1].pc = "fetching"
    /\ calls[1].sessions = 1
    /\ calls[1].fetches = 3
    /\ calls[1].requestInterceptions = 3
    /\ calls[1].finalRequest = Some([method |-> "GET", stamp |-> 3])

(***************************************************************************)
(* SpecNone: a client made with the strategy none and, in mgr, a client    *)
(* of another run of the program made with the strategy memory and the     *)
(* same staleTime: its configuration, its registry, its calls and its      *)
(* invalidateQueries call.  Whatever the callers and the network do to the *)
(* one they do to the other at the same instant: the same calls, the same  *)
(* outcomes of the fetches, invalidateQueries called with the same         *)
(* argument and resumed at the same moments, taking the managers in the    *)
(* same order.  A step one of the two cannot make leaves it where it is.   *)
(***************************************************************************)
\* a registry with its managers' strategy read as memory
AsMemory(registry) ==
    [k \in DOMAIN registry |->
        IF registry[k] = None THEN None
        ELSE Some([Val(registry[k]) EXCEPT !.strategy = "memory"])]

InitNone ==
    /\ now = 0
    /\ localStorage = [k \in CacheKeys |-> None]
    /\ cacheManagers = [k \in CacheKeys |-> None]
    /\ trace = [k \in CacheKeys |-> NoWrite]
    /\ session = <<>>
    /\ invalidation = NoInvalidation
    /\ isClient = TRUE
    /\ calls = [c \in {1, 2, Refetcher} |->
                   IF c = Refetcher THEN NoRefetcher ELSE NewCall]
    /\ \E t \in 0..MaxStaleTime :
          /\ config = Config(CacheConfig("none", t), None, FALSE)
          /\ mgr = [config |-> Config(CacheConfig("memory", t), None, FALSE),
                    cacheManagers |-> [k \in CacheKeys |-> None],
                    calls |-> calls,
                    invalidation |-> NoInvalidation]

NoneFrame == UNCHANGED <<session, isClient, config, trace>>

\* the calls of the other client awaiting the response of their first
\* fetch, its head or its body
TwinAwaitingFirstResponse ==
    {d \in DOMAIN mgr.calls : mgr.calls[d].pc = "fetching" /\ mgr.calls[d].fetches = 1}

\* both clients get the call request(routeName, options, cache)
TwinRequest(c) ==
    \E shape \in CallShapes :
        /\ calls[c].pc = "idle"
        /\ \A d \in DOMAIN calls : d < c => calls[d].pc # "idle"
        /\ cacheManagers' = request_registry(config, cacheManagers, shape[1], shape[2])
        /\ calls' = [calls EXCEPT ![c] =
                        request_call(config, cacheManagers, isClient, localStorage,
                                     calls[c], shape[1], shape[2], now,
                                     AwaitingFirstResponse)]
        /\ mgr' = IF mgr.calls[c].pc = "idle"
                  THEN [mgr EXCEPT
                          !.cacheManagers = request_registry(mgr.config, @,
                                                             shape[1], shape[2]),
                          !.calls = [@ EXCEPT ![c] =
                                        request_call(mgr.config, mgr.cacheManagers,
                                                     isClient, localStorage, @,
                                                     shape[1], shape[2], now,
                                                     TwinAwaitingFirstResponse)]]
                  ELSE mgr
        /\ UNCHANGED <<now, localStorage, invalidation>>
        /\ NoneFrame

\* the fetch of call c fulfils with the same head for both clients
TwinFetchResponds(c) ==
    \E status \in Statuses :
        /\ calls[c].pc = "fetching"
        /\ calls[c].head = None
        /\ calls' = [calls EXCEPT ![c].head = Some(status)]
        /\ mgr' = IF mgr.calls[c].pc = "fetching" /\ mgr.calls[c].head = None
                  THEN [mgr EXCEPT !.calls[c].head = Some(status)]
                  ELSE mgr
        /\ UNCHANGED <<now, localStorage, cacheManagers, invalidation>>
        /\ NoneFrame

\* the promise call c awaits settles the same way for both clients
TwinFetchSettles(c) ==
    \E outcome \in PendingOutcomes(calls[c].head) :
        /\ calls[c].pc = "fetching"
        /\ LET r == executeRequest_end(config, cacheManagers, isClient, localStorage,
                                       calls[c], outcome, TRUE, now)
               twin == executeRequest_end(mgr.config, mgr.cacheManagers, isClient,
                                          localStorage, mgr.calls[c], outcome, TRUE,
                                          now)
           IN /\ cacheManagers' = r.cacheManagers
              /\ calls' = [calls EXCEPT ![c] = r.call]
              /\ localStorage' = r.localStorage
              /\ mgr' = IF mgr.calls[c].pc = "fetching"
                           /\ mgr.calls[c].head = calls[c].head
                        THEN [mgr EXCEPT !.cacheManagers = twin.cacheManagers,
                                         !.calls = [@ EXCEPT ![c] = twin.call]]
                        ELSE mgr
        /\ UNCHANGED <<now, invalidation>>
        /\ NoneFrame

\* invalidateQueries runs on both clients from where it stands to its next
\* await or its end
TwinRuns(inv, twin) ==
    /\ \E key \in CacheKeys, failing \in SUBSET CacheKeys :
          /\ inv.pc \in {"idle", "running"}
             => invalidateQueries_takes(cacheManagers, isClient, localStorage, inv,
                                        key, failing)
          /\ inv.pc \in {"awaiting", "clearing"}
             => key = (CHOOSE k \in CacheKeys : TRUE) /\ failing = {}
          /\ LET r == invalidateQueries_resumed(
                          config, cacheManagers, isClient, localStorage, calls,
                          inv, key, failing, now, AwaitingFirstResponse)
                 same == /\ twin.pc = inv.pc
                         /\ twin.pc \in {"idle", "running"}
                            => invalidateQueries_takes(mgr.cacheManagers, isClient,
                                                       localStorage, twin, key,
                                                       failing)
                         /\ twin.pc = "awaiting"
                            => mgr.calls[Refetcher].pc \in {"done", "failed"}
                 t == invalidateQueries_resumed(
                          mgr.config, mgr.cacheManagers, isClient, localStorage,
                          mgr.calls, twin, key, failing, now,
                          TwinAwaitingFirstResponse)
             IN /\ cacheManagers' = r.cacheManagers
                /\ calls' = r.calls
                /\ invalidation' = r.invalidation
                /\ localStorage' = r.localStorage
                /\ mgr' = IF same
                          THEN [mgr EXCEPT !.cacheManagers = t.cacheManagers,
                                           !.calls = t.calls,
                                           !.invalidation = t.invalidation]
                          ELSE mgr
    /\ UNCHANGED now
    /\ NoneFrame

\* invalidateQueries(queryKey) is called on both clients
TwinInvalidate ==
    /\ invalidation.pc = "idle"
    /\ \E queryKey \in QueryKeys :
          TwinRuns([invalidation EXCEPT !.queryKey = queryKey],
                   [mgr.invalidation EXCEPT !.queryKey = queryKey])

\* invalidateQueries is resumed on both clients
TwinResume ==
    /\ invalidation.pc \in {"awaiting", "clearing", "running"}
    /\ invalidation.pc = "awaiting" => calls[Refetcher].pc \in {"done", "failed"}
    /\ TwinRuns(invalidation, mgr.invalidation)

TwinTick ==
    /\ now < MaxTime
    /\ now' = now + 1
    /\ UNCHANGED <<cacheManagers, calls, mgr, localStorage, invalidation>>
    /\ NoneFrame

NextNone ==
    \/ \E c \in DOMAIN calls : TwinRequest(c)
    \/ \E c \in DOMAIN calls : TwinFetchResponds(c)
    \/ \E c \in DOMAIN calls : TwinFetchSettles(c)
    \/ TwinInvalidate
    \/ TwinResume
    \/ TwinTick

SpecNone == InitNone /\ [][NextNone]_vars

(***************************************************************************)
(* Claims about the strategy none, checked under SpecNone.                 *)
(***************************************************************************)
\* C36: a client of strategy none behaves as one of strategy memory: after
\* the same calls, outcomes, clock advances and invalidations, the managers
\* of the two hold the same entries, their calls are in the same state (the
\* same fresh hits served from the cache, the same fetches made, the same
\* values returned) and so are their invalidateQueries calls.
C36_NoneBehavesAsMemory ==
    /\ AsMemory(cacheManagers) = mgr.cacheManagers
    /\ calls = mgr.calls
    /\ invalidation = mgr.invalidation

\* under none, a first call fetched and wrote its entry, a second call was
\* served that entry from the cache without a fetch, and invalidateQueries
\* then refreshed the entry, got it back from the refetch callback without a
\* fetch, cleared the manager and resolved
C36_Witness ==
    /\ Val(config.cache).strategy = Some("none")
    /\ calls[1].pc = "done"
    /\ calls[1].fetches = 1
    /\ calls[1].writes = 1
    /\ calls[2].pc = "done"
    /\ calls[2].fetches = 0
    /\ isFreshHit(calls[2].cached)
    /\ calls[2].value = calls[1].value
    /\ invalidation.pc = "resolved"
    /\ invalidation.entries = 1
    /\ invalidation.invoked = 1
    /\ invalidation.fetched = 0
    /\ cacheKeyOf(calls[1].input) \in invalidation.visited
    /\ Cache_get(Val(cacheManagers[cacheKeyOf(calls[1].input)]), isClient,
                 localStorage, cacheKeyOf(calls[1].input)) = None

(***************************************************************************)
(* Claims about calls in flight during invalidateQueries, checked under    *)
(* SpecInvalidate.                                                         *)
(***************************************************************************)
\* the fetch of call c settles in the step and the call returns
ReturnsFromFetch(c) == calls[c].pc = "fetching" /\ calls'[c].pc = "done"

\* C37: a call whose fetch settles after invalidateQueries ran clear() on
\* the manager of its key still finds that manager in the registry and
\* writes its validated value into it: the manager then holds the value,
\* fresh, whenever the call started.
C37_InFlightCallWritesAfterClear ==
    [][\A c \in DOMAIN calls \ {Refetcher} :
          LET key == cacheKeyOf(calls[c].input) IN
          (ReturnsFromFetch(c) /\ key \in invalidation.visited)
          => /\ cacheManagers[key] # None
             /\ calls'[c].writes = calls[c].writes + 1
             /\ Val(cacheManagers[key]).strategy # "local-storage"
                => CacheManager_get(Val(cacheManagers'[key]), isClient,
                                    localStorage', key, now)
                     = Some([data |-> calls'[c].value, timestamp |-> now,
                             status |-> "fresh"])]_vars

\* call 2 found the entry of call 1 stale and fetched; invalidateQueries
\* refreshed and cleared the manager and resolved while that fetch was in
\* flight; the fetch then settled, and the cleared manager holds its value
C37_Witness ==
    /\ invalidation.pc = "resolved"
    /\ 2 \in DOMAIN calls
    /\ calls[2].pc = "done"
    /\ calls[2].cached # None
    /\ Val(calls[2].cached).status = "stale"
    /\ calls[2].fetches = 1
    /\ calls[2].writes = 1
    /\ cacheKeyOf(calls[2].input) \in invalidation.visited
    /\ cacheManagers[cacheKeyOf(calls[2].input)] # None
    /\ CacheManager_get(Val(cacheManagers[cacheKeyOf(calls[2].input)]), isClient,
                        localStorage, cacheKeyOf(calls[2].input), now)
         = Some([data |-> calls[2].value, timestamp |-> now, status |-> "fresh"])

(***************************************************************************)
(* Claims about the entries a manager reaches, checked under SpecShared.   *)
(***************************************************************************)
\* invalidateAndRefetch() of the manager of key k is called in the step
Refreshes(k) ==
    /\ invalidation.manager = None
    /\ cacheManagers[k] # None
    /\ invalidation'.manager = Some(k)

\* the entries the manager of key k reaches
Reach(k) == Cache_keys(Val(cacheManagers[k]), isClient, localStorage)

\* the timestamp the manager of key k reads for key e after the step
TimestampAfter(k, e) ==
    Val(Cache_get(Val(cacheManagers'[k]), isClient, localStorage', e)).timestamp

\* a manager of the memory storage holds at most the entry of its own key,
\* and its invalidateAndRefetch leaves the other managers and
\* window.localStorage as they are
OwnEntryOnly(k) ==
    (cacheManagers[k] # None /\ Val(cacheManagers[k]).strategy # "local-storage")
    => /\ Reach(k) \subseteq {k}
       /\ Refreshes(k)
          => /\ \A j \in DOMAIN cacheManagers \ {k} : cacheManagers'[j] = cacheManagers[j]
             /\ localStorage' = localStorage

\* the managers of the persistent storage reach the same entries: every
\* item under the prefix that parses, whatever its key
SharedNamespace(k) ==
    (cacheManagers[k] # None /\ Val(cacheManagers[k]).strategy = "local-storage")
    => Reach(k) = {e \in DOMAIN localStorage :
                      LocalStorage_get(isClient, localStorage, e) # None}

\* C38 as stated: with the memory strategy a manager holds at most the entry
\* of its own key and its invalidateAndRefetch touches only that entry; with
\* the local-storage strategy a manager's invalidateAndRefetch refreshes the
\* timestamp of every entry under the prefix, those of other keys included,
\* and calls its own refetch callback once for each of them.
C38_Original ==
    [][\A k \in DOMAIN cacheManagers :
          /\ OwnEntryOnly(k)
          /\ SharedNamespace(k)
          /\ (Refreshes(k) /\ Val(cacheManagers[k]).strategy = "local-storage")
             => \A e \in Reach(k) : TimestampAfter(k, e) = now
          /\ (invalidation.pc \notin {"resolved", "rejected"}
              /\ invalidation'.pc \in {"resolved", "rejected"})
             => invalidation'.invoked = invalidation'.entries]_vars

\* the item of key e in window.localStorage is left as it was
ItemKept(e) ==
    (e \in DOMAIN localStorage' /\ e \in DOMAIN localStorage)
    /\ localStorage'[e] = localStorage[e]

\* the refetch callback awaited rejects in the step
CallbackRejects ==
    invalidation.pc = "awaiting" /\ invalidation'.pc = "rejected"

\* C38, amended: with the memory strategy a manager holds at most the entry
\* of its own key and its invalidateAndRefetch touches only that entry; with
\* the local-storage strategy the managers share the items under the
\* prefix: a manager's invalidateAndRefetch takes them all in its snapshot,
\* those of other keys included, refreshes the timestamp of each of them
\* whose write the storage takes and leaves each of the others as it was,
\* changes the data of none, and calls its own refetch callback for them one
\* at a time: once for each when it resolves, for no further one after a
\* call that rejects.
C38_OwnEntryOrSharedNamespace ==
    [][\A k \in DOMAIN cacheManagers :
          /\ OwnEntryOnly(k)
          /\ SharedNamespace(k)
          /\ (Refreshes(k) /\ Val(cacheManagers[k]).strategy = "local-storage")
             => /\ invalidation'.entries
                     = invalidation.entries + Cardinality(Reach(k))
                /\ \A e \in Reach(k) :
                      /\ TimestampAfter(k, e) = now \/ ItemKept(e)
                      /\ Val(Cache_get(Val(cacheManagers'[k]), isClient, localStorage', e)).data
                           = Val(Cache_get(Val(cacheManagers[k]), isClient, localStorage, e)).data
                /\ \A e \in DOMAIN localStorage \ Reach(k) : ItemKept(e)
          /\ Clears(k) => invalidation'.invoked = invalidation'.entries
          /\ (invalidation'.pc = "awaiting" /\ invalidation'.manager = Some(k))
             => cacheKeyOf(calls'[Refetcher].input) = k
          /\ invalidation'.invoked # invalidation.invoked
             => /\ invalidation'.invoked = invalidation.invoked + 1
                /\ invalidation'.pc = "awaiting"
          /\ CallbackRejects
             => /\ invalidation'.invoked = invalidation.invoked
                /\ invalidation'.remaining = invalidation.remaining
                /\ invalidation'.visited = invalidation.visited
                /\ calls'[Refetcher].pc # "fetching"
          /\ invalidation.pc = "rejected" => invalidation' = invalidation
          /\ invalidation'.invoked <= invalidation'.entries]_vars

\* the manager of one key went through invalidateAndRefetch over a
\* namespace of two entries written at 0, one of them of another key: the
\* storage took the write of one, which was refreshed at 1, and refused the
\* write of the other, which kept its timestamp; the callback of the manager
\* was called twice and served from the cache both times, no call wrote an
\* entry, and the sweep resolved
C38_Witness ==
    /\ Val(config.cache).strategy = Some("local-storage")
    /\ invalidation.pc = "resolved"
    /\ Cardinality(invalidation.visited) = 1
    /\ invalidation.entries = 2
    /\ invalidation.invoked = 2
    /\ invalidation.fetched = 0
    /\ calls[1].writes = 0
    /\ now = 1
    /\ \E k \in invalidation.visited :
          /\ Cardinality(Reach(k)) = 2
          /\ \E e \in Reach(k) :
                Val(Cache_get(Val(cacheManagers[k]), isClient, localStorage, e)).timestamp = 1
          /\ \E e \in Reach(k) \ {k} :
                Val(Cache_get(Val(cacheManagers[k]), isClient, localStorage, e)).timestamp = 0

(***************************************************************************)
(* SpecDefaults: a client made with no retry policy and two calls, or with *)
(* a policy that leaves attempts or delay out and one call.  Beside the    *)
(* ticks of the clock, time passes up to the instant the earliest pending  *)
(* retry timer is due at.                                                  *)
(***************************************************************************)
\* fullConfig.retry with fields left out
RetryOmitting ==
    {None,
     Some([attempts |-> None, delay |-> None]),
     Some([attempts |-> None, delay |-> Some(1)]),
     Some([attempts |-> Some(2), delay |-> None])}

InitDefaults ==
    /\ InitPipe
    /\ invalidation = <<>>
    /\ isClient = TRUE
    /\ \/ /\ calls = [c \in {1, 2} |-> NewCall]
          /\ config \in {Config(c, None, FALSE) :
                            c \in {None, CacheConfig("memory", 0)}}
       \/ /\ calls = [c \in {1} |-> NewCall]
          /\ config \in {Config(c, r, FALSE) :
                            c \in {None, CacheConfig("memory", 0)},
                            r \in RetryOmitting \ {None}}

\* time passes until the earliest retry timer is due
TimerElapses ==
    \E c \in DOMAIN calls :
        /\ calls[c].pc = "waiting"
        /\ now < calls[c].retry.due
        /\ \A d \in DOMAIN calls :
              calls[d].pc = "waiting" => calls[c].retry.due <= calls[d].retry.due
        /\ now' = calls[c].retry.due
        /\ UNCHANGED <<localStorage, cacheManagers, calls, trace>>
        /\ PipeFrame

NextDefaults ==
    \/ \E c \in DOMAIN calls : Request(c)
    \/ \E c \in DOMAIN calls : FetchResponds(c)
    \/ \E c \in DOMAIN calls : FetchSettles(c)
    \/ \E c \in DOMAIN calls : TimerFires(c)
    \/ SoloTick
    \/ TimerElapses

SpecDefaults == InitDefaults /\ [][NextDefaults]_vars

(***************************************************************************)
(* Claims about the defaults of the retry policy, checked under            *)
(* SpecDefaults.                                                           *)
(***************************************************************************)
\* C39: without a retry policy a call that finds no fresh entry makes
\* exactly one fetch and fails with it without any wait; with a policy that
\* leaves attempts out the session has 3 attempts, so that a call whose
\* every attempt fails makes exactly 3 fetches, and with one that leaves
\* delay out the delay is 1000, the waits being its multiples.
C39_OnceWithoutRetryDefaultsWithRetry ==
    \A c \in DOMAIN calls :
        /\ config.retry = None
           => /\ calls[c].sessions = 0
              /\ calls[c].pc # "waiting"
              /\ calls[c].retry.waits = <<>>
              /\ calls[c].pc \in {"fetching", "failed"} => calls[c].fetches = 1
              /\ calls[c].pc = "done"
                 => calls[c].fetches = IF isFreshHit(calls[c].cached) THEN 0 ELSE 1
        /\ (config.retry # None /\ calls[c].sessions > 0)
           => /\ calls[c].sessions = 1
              /\ calls[c].fetches <= calls[c].retry.attempts
              /\ Val(config.retry).attempts = None
                 => /\ calls[c].retry.attempts = 3
                    /\ calls[c].pc = "failed" => calls[c].fetches = 3
              /\ Val(config.retry).delay = None
                 => /\ calls[c].retry.delay = 1000
                    /\ \A i \in DOMAIN calls[c].retry.waits :
                          calls[c].retry.waits[i] = 1000 * i

\* a policy with nothing in it and a call whose three attempts failed, the
\* waits of 1000, 2000 and 3000 having passed
C39_Witness ==
    /\ config.retry = Some([attempts |-> None, delay |-> None])
    /\ calls[1].pc = "failed"
    /\ calls[1].fetches = 3
    /\ calls[1].retry.waits = <<1000, 2000, 3000>>
    /\ now = 6000

====
